---- MODULE Spec2Model ----
(***************************************************************************)
(* Layered refinement pipeline (bronze -> silver -> gold) of the economic  *)
(* indicators repository: the object store, the error_handler retry        *)
(* decorator, the two refinement orchestrators, the gold aggregator's      *)
(* orchestration and the collector's store step.                           *)
(*                                                                         *)
(* Strings that the code orders, splits or prefix-matches (object keys,    *)
(* indicator names, timestamps) are sequences of one-character strings.    *)
(***************************************************************************)
EXTENDS Integers, Sequences, FiniteSets, TLC

VARIABLES
    store,      \* the bucket: a function from object keys to tables
    clock,      \* wall clock, in seconds after 2024-01-01 00:00:00
    pc,         \* position of the running call
    loc,        \* locals of the running call
    results,    \* the {indicator: success} map built by process_all_indicators
    ghost,      \* history of the run: what was listed, read, transformed, written
    eh,         \* a function wrapped by error_handler, and the wrapper's locals
    calc        \* a gold builder or silver transformer applied to given tables

vars == <<store, clock, pc, loc, results, ghost, eh, calc>>

(***************************************************************************)
(* Bounds of the model.                                                    *)
(***************************************************************************)
\* largest retries= value given to error_handler in the generic wrapper runs
MaxRetries == 2
\* length of the scripted behaviour of a wrapped function (last entry repeats)
MaxScript == 3
\* seconds the clock may drift forward, in total, between timestamp reads
MaxDrift == 1
\* length of the indicator list handed to BaseTransformer.process_all_indicators
MaxList == 2

(***************************************************************************)
(* Characters and strings.                                                 *)
(***************************************************************************)
\* the characters that occur in keys, in ascending code-point order
Ascii ==
    << "-", ".", "/", "0", "1", "2", "3", "4", "5", "6", "7", "8", "9", "_",
       "a", "b", "c", "d", "e", "f", "g", "h", "i", "j", "k", "l", "m",
       "n", "o", "p", "q", "r", "s", "t", "u", "v", "w", "x", "y", "z" >>

Ord(c) == CHOOSE i \in 1..Len(Ascii) : Ascii[i] = c

Min(a, b) == IF a <= b THEN a ELSE b

\* Python's str.startswith / the S3 Prefix= filter
StartsWith(s, p) ==
    /\ Len(p) <= Len(s)
    /\ \A i \in 1..Len(p) : s[i] = p[i]

\* Python's < on str: code-point lexicographic, a proper prefix is smaller
StrLess(a, b) ==
    \E i \in 1..(Min(Len(a), Len(b)) + 1) :
        /\ \A j \in 1..(i - 1) : a[j] = b[j]
        /\ \/ i > Len(a) /\ i <= Len(b)
           \/ i <= Len(a) /\ i <= Len(b) /\ Ord(a[i]) < Ord(b[i])

RECURSIVE Insert(_, _)
Insert(k, s) ==
    IF s = <<>> THEN <<k>>
    ELSE IF StrLess(k, Head(s)) THEN <<k>> \o s
    ELSE <<Head(s)>> \o Insert(k, Tail(s))

\* Python's sorted() on a list of str
RECURSIVE sorted(_)
sorted(s) == IF s = <<>> THEN <<>> ELSE Insert(Head(s), sorted(Tail(s)))

Digits == << "0", "1", "2", "3", "4", "5", "6", "7", "8", "9" >>

TwoDigits(n) == << Digits[(n \div 10) + 1], Digits[(n % 10) + 1] >>

\* datetime.now().strftime('%Y%m%d_%H%M%S'), for a clock within the first hour
strftime(t) ==
    << "2", "0", "2", "4", "0", "1", "0", "1", "_", "0", "0" >>
        \o TwoDigits((t \div 60) % 60) \o TwoDigits(t % 60)

BRONZE == << "b", "r", "o", "n", "z", "e" >>
SILVER == << "s", "i", "l", "v", "e", "r" >>
GOLD == << "g", "o", "l", "d" >>
ECONOMIC_INDICATORS ==
    << "e", "c", "o", "n", "o", "m", "i", "c", "_",
       "i", "n", "d", "i", "c", "a", "t", "o", "r", "s" >>
UNDERSCORE_INDICATORS ==
    << "_", "i", "n", "d", "i", "c", "a", "t", "o", "r", "s" >>
DASHBOARDS == << "d", "a", "s", "h", "b", "o", "a", "r", "d", "s" >>
PARQUET == << "p", "a", "r", "q", "u", "e", "t" >>
SLASH == << "/" >>
UNDERSCORE == << "_" >>
DASH == << "-" >>
DOT == << "." >>

IPCA == << "i", "p", "c", "a" >>
IPCA15 == << "i", "p", "c", "a", "1", "5" >>
SELIC == << "s", "e", "l", "i", "c" >>
PIB == << "p", "i", "b" >>
CAMBIO == << "c", "a", "m", "b", "i", "o" >>
DESEMPREGO == << "d", "e", "s", "e", "m", "p", "r", "e", "g", "o" >>
BCB == << "b", "c", "b" >>
IBGE == << "i", "b", "g", "e" >>

\* get_s3_path_with_timestamp(base_path): f"{base_path}_{timestamp}.{extension}"
get_s3_path_with_timestamp(base_path, t) ==
    base_path \o UNDERSCORE \o strftime(t) \o DOT \o PARQUET

(***************************************************************************)
(* Exceptions and the error_handler decorator.                             *)
(***************************************************************************)
UNKNOWN_ERROR == "ERR-GEN-001"
S3_ACCESS_ERROR == "ERR-AWS-002"
COLLECTOR_CONNECTION_ERROR == "ERR-COL-001"
COLLECTOR_API_ERROR == "ERR-COL-002"
TRANSFORM_INPUT_ERROR == "ERR-TRF-001"
TRANSFORM_OUTPUT_ERROR == "ERR-TRF-003"

NoDetails == [k \in {} |-> <<>>]

\* an exception object; msg is str(e) as a sequence of words
PlainError(type, msg) ==
    [type |-> type, msg |-> msg, code |-> "none", details |-> NoDetails]

\* ProcessingError(message, code=UNKNOWN_ERROR, details=None)
ProcessingError(msg, code, details) ==
    [type |-> "ProcessingError", msg |-> msg, code |-> code, details |-> details]

\* isinstance(e, cls) for the classes used: every class derives from Exception
IsInstance(e, cls) == cls = "Exception" \/ e.type = cls

\* except tuple(handled_exceptions) as e
IsHandled(e, handled) == \E cls \in handled : IsInstance(e, cls)

\* "AWS" in str(e) or "S3" in str(e)
MentionsAWS(e) == \E i \in 1..Len(e.msg) : e.msg[i] \in {"AWS", "S3"}

\* a wrapper that repackages whatever it gives up on, ProcessingError included
RepackageAlways(e, fname) ==
    ProcessingError(<< "Erro", "em", fname >> \o e.msg, UNKNOWN_ERROR,
                    [k \in {"original_error"} |-> e.msg])

\* the exception that leaves the wrapper when it gives up
Repackage(e, fname) ==
    IF IsInstance(e, "ProcessingError") THEN e
    ELSE ProcessingError(
            << "Erro", "em", fname >> \o e.msg,
            IF IsInstance(e, "ConnectionError") THEN COLLECTOR_CONNECTION_ERROR
            ELSE IF MentionsAWS(e) THEN S3_ACCESS_ERROR
            ELSE UNKNOWN_ERROR,
            [k \in {"original_error"} |-> e.msg])

\* a retry test that is off by one: it gives up one call early
GiveUpOneEarly(retry_count, retries) == retry_count >= retries

\* a retry test that is off by one the other way: one call more
GiveUpOneLate(retry_count, retries) == retry_count > retries + 1

\* the retry test of the wrapper, on the count already incremented
GiveUp(retry_count, retries) == retry_count > retries

\* what the wrapper does with an exception raised by one call of the function:
\* propagate it untouched, sleep and call again, or give up
WrapperOnRaise(retry_count, retries, handled, e, fname) ==
    IF ~IsHandled(e, handled)
    THEN [do |-> "propagate", exc |-> e, retry_count |-> retry_count]
    ELSE IF GiveUp(retry_count + 1, retries)
    THEN [do |-> "raise", exc |-> Repackage(e, fname),
          retry_count |-> retry_count + 1]
    ELSE [do |-> "retry", exc |-> e, retry_count |-> retry_count + 1]

EmptyMap == [k \in {} |-> FALSE]

(***************************************************************************)
(* Tables (pandas DataFrames): a column list and a sequence of rows, each  *)
(* row a record from column name to cell; a cell is <<v>> or NULL.          *)
(***************************************************************************)
NULL == <<>>

None == [isNone |-> TRUE, cols |-> <<>>, rows |-> <<>>]

Table(cols, rows) == [isNone |-> FALSE, cols |-> cols, rows |-> rows]

\* df.empty: an axis of length 0
IsEmpty(df) == Len(df.cols) = 0 \/ Len(df.rows) = 0

\* df is None or df.empty
NoneOrEmpty(df) == df.isNone \/ IsEmpty(df)

ColSet(df) == { df.cols[i] : i \in 1..Len(df.cols) }

\* validate_column_presence: the required columns that are absent
missing_columns(df, required_columns) ==
    { c \in required_columns : c \notin ColSet(df) }

\* validate_missing_values: columns whose null percentage exceeds the threshold
columns_above_threshold(df, threshold_pct) ==
    { c \in ColSet(df) :
        Cardinality({ i \in 1..Len(df.rows) : df.rows[i][c] = NULL }) * 100
            > threshold_pct * Len(df.rows) }

\* validate_duplicates: df.duplicated().sum(), rows equal to an earlier row
duplicate_count(df) ==
    Cardinality({ i \in 1..Len(df.rows) :
                    \E j \in 1..(i - 1) : df.rows[j] = df.rows[i] })

\* validate_dataset(df, required_columns, null_threshold_pct)[0]
validate_dataset(df, required_columns, null_threshold_pct) ==
    IF NoneOrEmpty(df) THEN FALSE
    ELSE /\ missing_columns(df, required_columns) = {}
         /\ columns_above_threshold(df, null_threshold_pct) = {}
         /\ duplicate_count(df) = 0

\* required_columns and null_threshold_pct given by BaseTransformer
RequiredColumns == {"date", "value", "indicator"}
NullThresholdPct == 10

Cols3 == << "date", "value", "indicator" >>

Row3(d, v) == [date |-> <<d>>, value |-> v, indicator |-> << "x" >>]

Valid2 == Table(Cols3, << Row3(1, <<5>>), Row3(2, <<6>>) >>)
MissingIndicator ==
    Table(<< "date", "value" >>,
          << [date |-> <<1>>, value |-> <<5>>], [date |-> <<2>>, value |-> <<6>>] >>)

Duplicated == Table(Cols3, << Row3(1, <<5>>), Row3(1, <<5>>) >>)
HalfNull == Table(Cols3, << Row3(1, <<5>>), Row3(2, NULL) >>)

\* one null cell in ten rows: exactly at the threshold, not above it
TenthNull ==
    Table(Cols3, [i \in 1..10 |-> Row3(i, IF i = 10 THEN NULL ELSE <<i>>)])
EmptyTable == Table(Cols3, <<>>)

\* what a transformation policy (or a product builder) may hand back
PolicyTables ==
    { Valid2, MissingIndicator, Duplicated, HalfNull, TenthNull, EmptyTable, None }

PolicyBehaviours ==
    { [kind |-> "return", table |-> t] : t \in PolicyTables }
    \cup { [kind |-> "raise", table |-> None] }

\* the policy inside a batch: one outcome of each kind (a table, an empty
\* table, an exception); a direct call of process_indicator draws from all of
\* PolicyBehaviours
BatchBehaviours ==
    { [kind |-> "return", table |-> t] : t \in {Valid2, EmptyTable} }
    \cup { [kind |-> "raise", table |-> None] }

\* what a product builder may do once its inputs are there
BuilderBehaviours ==
    { [kind |-> "return", table |-> t] : t \in {Valid2, EmptyTable} }
    \cup { [kind |-> "raise", table |-> None] }


(***************************************************************************)
(* The object store and its client.                                        *)
(***************************************************************************)
Path(layer, dir, name) == layer \o SLASH \o dir \o SLASH \o name

\* the key of a stored snapshot: {layer}/{dir}/{name}_{timestamp}.parquet
Key(layer, dir, name, t) == get_s3_path_with_timestamp(Path(layer, dir, name), t)

\* list_objects_v2(Prefix=prefix): the keys that start with the prefix
MatchingIn(st, prefix) == { k \in DOMAIN st : StartsWith(k, prefix) }

Matching(prefix) == MatchingIn(store, prefix)

Perms(S) ==
    { s \in [1..Cardinality(S) -> S] :
        \A i, j \in 1..Cardinality(S) : s[i] = s[j] => i = j }

\* the listing of a prefix, in whatever order the client returns it
Listings(prefix) == Perms(Matching(prefix))

\* how one call of the storage client ends: it works; it fails inside the
\* client, which logs and returns [] / None / False; or the call itself raises
ClientOutcomes == {"ok", "error", "raise"}

ClientError == PlainError("AttributeError", << "S3", "client" >>)


\* taking the listing's last key as it came, without sorting
LastListed(files) == files[Len(files)]

\* sorted(files)[-1]
Latest(files) == sorted(files)[Len(files)]

\* put_object: the key now holds df
Put(st, key, df) ==
    [k \in DOMAIN st \cup {key} |-> IF k = key THEN df ELSE st[k]]

\* no wrapped function is running
EHIdle ==
    [state |-> "unused", retries |-> 0, retry_delay |-> 0, handled |-> {},
     script |-> <<>>, calls |-> 0, retry_count |-> 0,
     out |-> [kind |-> "none", value |-> "none", exc |-> PlainError("none", <<>>)]]

\* no builder or transformer is being applied
CalcIdle == [fn |-> "none", done |-> FALSE]

(***************************************************************************)
(* Local state of a stage run.                                             *)
(***************************************************************************)
\* the transformers dict of EconomicIndicatorTransformer.process_indicator,
\* the dict of load_latest_indicators (in insertion order)
FiveIndicators == << IPCA, SELIC, PIB, CAMBIO, DESEMPREGO >>

Range(s) == { s[i] : i \in 1..Len(s) }

\* a dispatch that lets every key through
AnyKeySupported(indicator) == TRUE

\* indicator in transformers
IsSupported(indicator) == indicator \in Range(FiveIndicators)

\* an orchestrator whose try block leaves the policy call outside
InTryButTransform(kind, site) == site \notin {"transform", "build"}

\* the body of each orchestrator is one try/except Exception
InTry(kind, site) ==
    \/ kind = "b2s" /\ site \in {"list", "load", "transform", "persist"}
    \/ kind = "base" /\ site \in {"load", "transform", "validate", "persist"}
    \/ kind = "gold" /\ site \in {"load", "build", "persist"}

\* a loop that breaks off at the first indicator that fails
LoopStopOnFailure(i, success) == IF success THEN i + 1 ELSE Len(loc.todo) + 1

\* the for loop of process_all_indicators: the next position, whatever the
\* outcome of the indicator just processed
LoopNext(i, success) == i + 1

\* history of the running call: what the environment answered
\* lists: list calls made; reads: the keys downloaded, one entry per download;
\* read_ok: the last download returned a non-empty table; policy: what the
\* policy (or builder) handed back; valid: validation verdicts; writes: the
\* writes attempted; fault: some call of the storage client did not work
Cur0 == [lists |-> 0, reads |-> <<>>, read_ok |-> FALSE, policy |-> <<>>,
         valid |-> <<>>, writes |-> <<>>, fault |-> FALSE]

Loc0 ==
    [kind |-> "none", mode |-> "none", todo |-> <<>>, idx |-> 1,
     source |-> <<>>, latest |-> <<>>, df |-> None, out |-> None, retry_count |-> 0,
     loaded |-> [k \in {} |-> None], product |-> 1, success_count |-> 0,
     ret |-> FALSE]

Ghost0 ==
    [cur |-> Cur0, expected |-> EmptyMap, stored |-> <<>>,
     before |-> EmptyMap, drift |-> 0, calls |-> 0]

\* the environment let the call through: it found and read a table, the policy
\* returned a non-empty table and the (last) write went through
Expected(h) ==
    /\ h.reads # <<>> /\ h.read_ok
    /\ h.policy # <<>> /\ h.policy[Len(h.policy)].kind = "return"
    /\ ~NoneOrEmpty(h.policy[Len(h.policy)].table)
    /\ h.writes # <<>> /\ h.writes[Len(h.writes)].ok

\* the call ends: return `value` from inside the orchestrator's try
Return(value) ==
    /\ pc' = "ret"
    /\ loc' = [loc EXCEPT !.ret = value]

\* an exception raised at `site`: caught by the enclosing except, or not
OnRaise(site) ==
    IF InTry(loc.kind, site)
    THEN /\ pc' = "ret"
         /\ loc' = [loc EXCEPT !.ret = FALSE]
    ELSE /\ pc' = "escaped"
         /\ loc' = loc

\* the clock may have moved on by the time a timestamp is taken
Drifts == { d \in 0..1 : d = 0 \/ ghost.drift < MaxDrift }

(***************************************************************************)
(* process_all_indicators / a direct call of process_indicator.            *)
(***************************************************************************)
Indicator == loc.todo[loc.idx]

\* process_indicator(indicator) is entered
StartCall ==
    /\ pc = "call"
    /\ pc' = IF loc.kind = "b2s" THEN "b2s_discover" ELSE "base_load"
    /\ loc' = [loc EXCEPT !.latest = <<>>, !.df = None, !.out = None,
                          !.retry_count = 0, !.ret = FALSE]
    /\ ghost' = [ghost EXCEPT !.cur = Cur0, !.before = store, !.calls = @ + 1]
    /\ UNCHANGED <<store, clock, results, eh, calc>>

\* process_indicator returned: results[indicator] = success, next indicator
RecordResult ==
    /\ pc = "ret"
    /\ loc.mode = "all"
    /\ results' = [k \in DOMAIN results \cup {Indicator} |->
                      IF k = Indicator THEN loc.ret ELSE results[k]]
    /\ ghost' = [ghost EXCEPT !.expected =
                    [k \in DOMAIN ghost.expected \cup {Indicator} |->
                        IF k = Indicator THEN Expected(ghost.cur)
                        ELSE ghost.expected[k]]]
    /\ loc' = [loc EXCEPT !.idx = LoopNext(loc.idx, loc.ret)]
    /\ pc' = IF LoopNext(loc.idx, loc.ret) <= Len(loc.todo) THEN "call" ELSE "done"
    /\ UNCHANGED <<store, clock, eh, calc>>

\* a direct call of process_indicator, or process_gold_layer, returned
CallReturned ==
    /\ pc = "ret"
    /\ loc.mode # "all"
    /\ pc' = "done"
    /\ UNCHANGED <<store, clock, loc, results, ghost, eh, calc>>

(***************************************************************************)
(* EconomicIndicatorTransformer.process_indicator (bronze -> silver).      *)
(***************************************************************************)
B2SPrefix(indicator) == Path(BRONZE, ECONOMIC_INDICATORS, indicator)

\* the dispatch check, list_files and the choice of the latest file
B2SDiscover ==
    /\ pc = "b2s_discover"
    /\ IF ~IsSupported(Indicator)
       THEN Return(FALSE) /\ UNCHANGED ghost
       ELSE \E o \in ClientOutcomes, listing \in Listings(B2SPrefix(Indicator)) :
              LET bronze_files == IF o = "ok" THEN listing ELSE <<>>
              IN /\ ghost' = [ghost EXCEPT !.cur.lists = @ + 1,
                                              !.cur.fault = @ \/ o # "ok"]
                 /\ IF o = "raise" THEN OnRaise("list")
                    ELSE IF bronze_files = <<>> THEN Return(FALSE)
                    ELSE /\ pc' = "b2s_load"
                         /\ loc' = [loc EXCEPT !.latest = Latest(bronze_files)]
    /\ UNCHANGED <<store, clock, results, eh, calc>>

\* download_file(latest_file)
B2SLoad ==
    /\ pc = "b2s_load"
    /\ \E o \in ClientOutcomes :
          LET bronze_df == IF o = "ok" THEN store[loc.latest] ELSE None
          IN /\ ghost' = [ghost EXCEPT
                    !.cur.reads = Append(@, [ind |-> Indicator, key |-> loc.latest]),
                    !.cur.read_ok = ~NoneOrEmpty(bronze_df),
                    !.cur.fault = @ \/ o # "ok"]
             /\ IF o = "raise" THEN OnRaise("load")
                ELSE IF NoneOrEmpty(bronze_df) THEN Return(FALSE)
                ELSE /\ pc' = "b2s_transform"
                     /\ loc' = [loc EXCEPT !.df = bronze_df]
    /\ UNCHANGED <<store, clock, results, eh, calc>>

\* transformers[indicator](bronze_df)
B2STransform ==
    /\ pc = "b2s_transform"
    /\ \E b \in PolicyBehaviours :
          /\ ghost' = [ghost EXCEPT !.cur.policy = Append(@, b)]
          /\ IF b.kind = "raise" THEN OnRaise("transform")
             ELSE IF NoneOrEmpty(b.table) THEN Return(FALSE)
             ELSE /\ pc' = "b2s_persist"
                  /\ loc' = [loc EXCEPT !.out = b.table]
    /\ UNCHANGED <<store, clock, results, eh, calc>>

\* get_s3_path_with_timestamp and write_parquet_to_s3
B2SPersist ==
    /\ pc = "b2s_persist"
    /\ \E d \in Drifts, o \in ClientOutcomes :
          LET file_path == Key(SILVER, ECONOMIC_INDICATORS, Indicator, clock + d)
          IN /\ clock' = clock + d
             /\ ghost' = [ghost EXCEPT !.drift = @ + d, !.cur.fault = @ \/ o # "ok",
                            !.cur.writes = Append(@, [key |-> file_path,
                                                     df |-> loc.out, ok |-> o = "ok"])]
             /\ store' = IF o = "ok" THEN Put(store, file_path, loc.out) ELSE store
             /\ IF o = "raise" THEN OnRaise("persist")
                ELSE Return(o = "ok")
    /\ UNCHANGED <<results, eh, calc>>

(***************************************************************************)
(* BaseTransformer.process_indicator, here from bronze to silver.          *)
(***************************************************************************)
\* @error_handler(retries=2, retry_delay=5) on _load_source_data
LoadRetries == 2
\* @error_handler(retries=2, retry_delay=5) on _save_target_data
SaveRetries == 2
RetryDelay == 5

\* the except clause of _load_source_data / _save_target_data: anything that
\* is not a ProcessingError is re-raised as one, with code S3_ACCESS_ERROR
ToProcessingError(e, words) ==
    IF IsInstance(e, "ProcessingError") THEN e
    ELSE ProcessingError(words \o e.msg, S3_ACCESS_ERROR, NoDetails)

\* a validation that is a gate: nothing is saved unless it passed
GateOnValidation(is_valid) == is_valid

\* `if not validation_result[0]` only logs a warning: the save follows
ProceedAfterValidation(is_valid) == TRUE

BasePrefix(indicator) == Path(BRONZE, ECONOMIC_INDICATORS, indicator)

\* one call of _load_source_data by its wrapper: get_latest_file, read_parquet
BaseLoad ==
    /\ pc = "base_load"
    /\ \E lo \in ClientOutcomes, listing \in Listings(BasePrefix(Indicator)),
          ro \in ClientOutcomes :
          LET files == IF lo = "ok" THEN listing ELSE <<>>
              found == lo # "raise" /\ files # <<>>
              latest_file == IF found THEN Latest(files) ELSE <<>>
              df == IF found /\ ro = "ok" THEN store[latest_file] ELSE None
              raised == lo = "raise" \/ (found /\ (ro = "raise" \/ NoneOrEmpty(df)))
              e == IF lo = "raise" \/ ro = "raise"
                   THEN ToProcessingError(ClientError, << "Erro", "ao", "carregar" >>)
                   ELSE ProcessingError(<< "Dados", "vazios" >>,
                                        TRANSFORM_INPUT_ERROR, NoDetails)
              w == WrapperOnRaise(loc.retry_count, LoadRetries, {"Exception"}, e,
                                  "_load_source_data")
          IN /\ (~found => ro = "ok")
             /\ ghost' = [ghost EXCEPT
                    !.cur.lists = @ + 1,
                    !.cur.reads = IF found
                                  THEN Append(@, [ind |-> Indicator, key |-> latest_file])
                                  ELSE @,
                    !.cur.read_ok = found /\ ~NoneOrEmpty(df),
                    !.cur.fault = @ \/ lo # "ok" \/ ro # "ok"]
             /\ IF ~raised
                THEN /\ clock' = clock
                     /\ IF ~found THEN Return(FALSE)
                        ELSE /\ pc' = "base_transform"
                             /\ loc' = [loc EXCEPT !.latest = latest_file,
                                                   !.df = df, !.retry_count = 0]
                ELSE IF w.do = "retry"
                THEN /\ clock' = clock + RetryDelay
                     /\ pc' = pc
                     /\ loc' = [loc EXCEPT !.retry_count = w.retry_count]
                ELSE /\ clock' = clock
                     /\ OnRaise("load")
    /\ UNCHANGED <<store, results, eh, calc>>

\* self.transform(df, indicator)
BaseTransform ==
    /\ pc = "base_transform"
    /\ \E b \in IF loc.mode = "all" THEN BatchBehaviours ELSE PolicyBehaviours :
          /\ ghost' = [ghost EXCEPT !.cur.policy = Append(@, b)]
          /\ IF b.kind = "raise" THEN OnRaise("transform")
             ELSE IF NoneOrEmpty(b.table) THEN Return(FALSE)
             ELSE /\ pc' = "base_validate"
                  /\ loc' = [loc EXCEPT !.out = b.table]
    /\ UNCHANGED <<store, clock, results, eh, calc>>

\* validate_dataset(transformed_df, ['date', 'value', 'indicator'], 10.0)
BaseValidate ==
    /\ pc = "base_validate"
    /\ LET is_valid == validate_dataset(loc.out, RequiredColumns, NullThresholdPct)
       IN /\ ghost' = [ghost EXCEPT !.cur.valid = Append(@, is_valid)]
          /\ IF ProceedAfterValidation(is_valid)
             THEN /\ pc' = "base_save"
                  /\ loc' = [loc EXCEPT !.retry_count = 0]
             ELSE Return(FALSE)
    /\ UNCHANGED <<store, clock, results, eh, calc>>

\* one call of _save_target_data by its wrapper: timestamp, write_parquet
BaseSave ==
    /\ pc = "base_save"
    /\ \E d \in Drifts, o \in ClientOutcomes :
          LET key == Key(SILVER, ECONOMIC_INDICATORS, Indicator, clock + d)
              ok == ~NoneOrEmpty(loc.out) /\ o = "ok"
              e == IF NoneOrEmpty(loc.out)
                   THEN ProcessingError(<< "DataFrame", "vazio" >>,
                                        TRANSFORM_OUTPUT_ERROR, NoDetails)
                   ELSE IF o = "raise"
                   THEN ToProcessingError(ClientError, << "Erro", "ao", "salvar" >>)
                   ELSE ProcessingError(<< "Erro", "ao", "salvar" >>,
                                        TRANSFORM_OUTPUT_ERROR, NoDetails)
              w == WrapperOnRaise(loc.retry_count, SaveRetries, {"Exception"}, e,
                                  "_save_target_data")
          IN /\ ghost' = [ghost EXCEPT !.drift = @ + d, !.cur.fault = @ \/ o # "ok",
                    !.cur.writes = IF NoneOrEmpty(loc.out) THEN @
                                   ELSE Append(@, [key |-> key, df |-> loc.out, ok |-> o = "ok"])]
             /\ store' = IF ok THEN Put(store, key, loc.out) ELSE store
             /\ IF ok
                THEN /\ clock' = clock + d
                     /\ Return(TRUE)
                ELSE IF w.do = "retry"
                THEN /\ clock' = clock + d + RetryDelay
                     /\ pc' = pc
                     /\ loc' = [loc EXCEPT !.retry_count = w.retry_count]
                ELSE /\ clock' = clock + d
                     /\ OnRaise("persist")
    /\ UNCHANGED <<results, eh, calc>>

(***************************************************************************)
(* EconomicIndicatorsGoldTransformer.process_gold_layer.                   *)
(***************************************************************************)
MONTHLY_INDICATORS ==
    << "m", "o", "n", "t", "h", "l", "y", "_",
       "i", "n", "d", "i", "c", "a", "t", "o", "r", "s" >>
LABOR_MARKET == << "l", "a", "b", "o", "r", "_", "m", "a", "r", "k", "e", "t" >>
MACRO_DASHBOARD ==
    << "m", "a", "c", "r", "o", "_", "d", "a", "s", "h", "b", "o", "a", "r", "d" >>

\* the three products, in the order process_gold_layer builds them
Products == << MONTHLY_INDICATORS, LABOR_MARKET, MACRO_DASHBOARD >>

\* a gold run that lists the raw layer
PrefixInBronze(indicator) == Path(BRONZE, ECONOMIC_INDICATORS, indicator)

GoldPrefix(indicator) == Path(SILVER, ECONOMIC_INDICATORS, indicator)

Available(loaded) == { k \in DOMAIN loaded : ~loaded[k].isNone }

\* the guard at the top of each create_* builder: without these inputs the
\* builder returns an empty DataFrame
BuilderReady(p, loaded) ==
    CASE p = 1 -> {IPCA, SELIC, CAMBIO} \subseteq Available(loaded)
      [] p = 2 -> DESEMPREGO \in Available(loaded)
      [] OTHER -> Cardinality(Available(loaded)) >= 2

\* a run that calls itself a success whatever was written
SuccessWhateverWritten(success_count) == success_count >= 0

\* return success_count > 0
GoldSuccess(success_count) == success_count > 0

\* not indicators or all(v is None for v in indicators.values())
NothingLoaded(loaded) == Available(loaded) = {}

\* one iteration of the loop of load_latest_indicators
GoldLoadOne ==
    /\ pc = "gold_load"
    /\ \E lo \in ClientOutcomes, listing \in Listings(GoldPrefix(Indicator)),
          ro \in ClientOutcomes :
          LET silver_files == IF lo = "ok" THEN listing ELSE <<>>
              found == lo # "raise" /\ silver_files # <<>>
              latest_file == IF found THEN Latest(silver_files) ELSE <<>>
              df == IF found /\ ro = "ok" THEN store[latest_file] ELSE None
              raised == lo = "raise" \/ (found /\ ro = "raise")
          IN /\ (~found => ro = "ok")
             /\ ghost' = [ghost EXCEPT
                    !.cur.lists = @ + 1,
                    !.cur.reads = IF found
                                  THEN Append(@, [ind |-> Indicator, key |-> latest_file])
                                  ELSE @,
                    !.cur.read_ok = found /\ ~NoneOrEmpty(df),
                    !.cur.fault = @ \/ lo # "ok" \/ ro # "ok"]
             /\ IF raised THEN OnRaise("load")
                ELSE /\ pc' = IF loc.idx < Len(loc.todo) THEN pc ELSE "gold_check"
                     /\ loc' = [loc EXCEPT
                            !.idx = IF loc.idx < Len(loc.todo) THEN @ + 1 ELSE @,
                            !.loaded[Indicator] =
                                IF found /\ ~NoneOrEmpty(df) THEN df ELSE @]
    /\ UNCHANGED <<store, clock, results, eh, calc>>

\* the early return when nothing was loaded; success_count = 0
GoldCheck ==
    /\ pc = "gold_check"
    /\ IF NothingLoaded(loc.loaded) THEN Return(FALSE)
       ELSE /\ pc' = "gold_build"
            /\ loc' = [loc EXCEPT !.success_count = 0, !.product = 1]
    /\ UNCHANGED <<store, clock, results, ghost, eh, calc>>

\* a run that stops at the first product instead of going on to the next
AbortAfterProduct(l) ==
    /\ pc' = "gold_return"
    /\ loc' = l

\* on to the next product, or to the return statement
NextProduct(l) ==
    /\ pc' = IF l.product < Len(Products) THEN "gold_build" ELSE "gold_return"
    /\ loc' = [l EXCEPT !.product = IF l.product < Len(Products) THEN @ + 1 ELSE @]

\* create_monthly_indicators / create_labor_market_indicators /
\* create_macro_dashboard, and the `if not panel.empty` test
GoldBuild ==
    /\ pc = "gold_build"
    /\ \E b \in BuilderBehaviours :
          LET built == IF BuilderReady(loc.product, loc.loaded) THEN b
                       ELSE [kind |-> "return", table |-> EmptyTable]
          IN /\ ghost' = [ghost EXCEPT !.cur.policy =
                            Append(@, [kind |-> built.kind, table |-> built.table])]
             /\ IF built.kind = "raise" \/ built.table.isNone
                THEN IF InTry(loc.kind, "build") THEN NextProduct(loc)
                     ELSE pc' = "escaped" /\ loc' = loc
                ELSE IF IsEmpty(built.table) THEN NextProduct(loc)
                ELSE /\ pc' = "gold_save"
                     /\ loc' = [loc EXCEPT !.out = built.table]
    /\ UNCHANGED <<store, clock, results, eh, calc>>

\* save_to_gold_layer(panel, name): it catches whatever the write raises
GoldSave ==
    /\ pc = "gold_save"
    /\ \E d \in Drifts, o \in ClientOutcomes :
          LET file_path == Key(GOLD, DASHBOARDS, Products[loc.product], clock + d)
          IN /\ clock' = clock + d
             /\ ghost' = [ghost EXCEPT !.drift = @ + d, !.cur.fault = @ \/ o # "ok",
                    !.cur.writes = Append(@, [key |-> file_path, df |-> loc.out, ok |-> o = "ok"])]
             /\ store' = IF o = "ok" THEN Put(store, file_path, loc.out) ELSE store
             /\ NextProduct([loc EXCEPT !.success_count =
                                IF o = "ok" THEN @ + 1 ELSE @])
    /\ UNCHANGED <<results, eh, calc>>

GoldReturn ==
    /\ pc = "gold_return"
    /\ Return(GoldSuccess(loc.success_count))
    /\ UNCHANGED <<store, clock, results, ghost, eh, calc>>

(***************************************************************************)
(* The stage runs: one orchestrator over a bucket left by earlier runs.    *)
(***************************************************************************)
\* objects written by earlier runs, at seconds 0 and 1
Bronze(name, t) == Key(BRONZE, ECONOMIC_INDICATORS, name, t)
Silver(name, t) == Key(SILVER, ECONOMIC_INDICATORS, name, t)

StoreOf(keys, empties) ==
    [k \in keys |-> IF k \in empties THEN EmptyTable ELSE Valid2]

InitialStores ==
    { EmptyMap,
      StoreOf({ Bronze(IPCA, 0), Bronze(IPCA, 1), Bronze(IPCA15, 0),
                Silver(IPCA, 0), Silver(IPCA, 1), Silver(SELIC, 0),
                Silver(CAMBIO, 0), Silver(DESEMPREGO, 0) }, {}),
      StoreOf({ Bronze(IPCA15, 1), Key(BRONZE, BCB \o UNDERSCORE_INDICATORS, IPCA, 0),
                Silver(DESEMPREGO, 0) }, {}),
      StoreOf({ Bronze(IPCA, 0), Bronze(SELIC, 1), Silver(IPCA, 1),
                Silver(SELIC, 0), Silver(DESEMPREGO, 1) },
              { Bronze(IPCA, 0), Silver(SELIC, 0) }) }

\* indicator names a caller may hand over
CallerIndicators == { IPCA, SELIC, IPCA15 }

Lists == UNION { [1..n -> {IPCA, SELIC}] : n \in 0..MaxList }

Runs ==
    { [kind |-> "b2s", mode |-> "all", todo |-> FiveIndicators] }
    \cup { [kind |-> "b2s", mode |-> "single", todo |-> << i >>] :
            i \in CallerIndicators }
    \cup { [kind |-> "base", mode |-> "all", todo |-> l] : l \in Lists }
    \cup { [kind |-> "base", mode |-> "single", todo |-> << IPCA >>] }
    \cup { [kind |-> "gold", mode |-> "gold", todo |-> FiveIndicators] }

Init ==
    /\ store \in InitialStores
    /\ clock = 2
    /\ \E r \in Runs :
          /\ loc = [Loc0 EXCEPT !.kind = r.kind, !.mode = r.mode, !.todo = r.todo,
                                !.loaded = [k \in Range(FiveIndicators) |-> None]]
          /\ pc = IF r.kind = "gold" THEN "gold_load"
                  ELSE IF r.todo = <<>> THEN "done" ELSE "call"
    /\ results = EmptyMap
    /\ ghost = [Ghost0 EXCEPT !.before = store]
    /\ eh = EHIdle
    /\ calc = CalcIdle

Next ==
    \/ StartCall
    \/ RecordResult
    \/ CallReturned
    \/ B2SDiscover
    \/ B2SLoad
    \/ B2STransform
    \/ B2SPersist
    \/ BaseLoad
    \/ BaseTransform
    \/ BaseValidate
    \/ BaseSave
    \/ GoldLoadOne
    \/ GoldCheck
    \/ GoldBuild
    \/ GoldSave
    \/ GoldReturn

Spec == Init /\ [][Next]_vars




(***************************************************************************)
(* Properties of the stage runs.                                           *)
(***************************************************************************)
\* the prefix a stage lists for an indicator
StagePrefix(kind, indicator) ==
    IF kind = "gold" THEN GoldPrefix(indicator) ELSE BasePrefix(indicator)

\* a call of process_indicator / process_gold_layer is under way or has
\* just returned
InCall == pc \notin {"call", "done", "unused", "collect"}

\* the greatest key of a non-empty set, by the order of strings
Greatest(S) == CHOOSE k \in S : \A o \in S : o = k \/ StrLess(o, k)

Completed ==
    \E i \in 1..Len(ghost.cur.writes) : ghost.cur.writes[i].ok

\* how far the run has come: the position in the list, then the step of the
\* call, then the product, then the attempt; every step of a run moves it on,
\* so that a run cannot go on for ever
Rank(p) ==
    CASE p = "call" -> 0
      [] p \in {"b2s_discover", "base_load", "gold_load"} -> 1
      [] p \in {"b2s_load", "gold_check"} -> 2
      [] p \in {"b2s_transform", "base_transform", "gold_build", "gold_save"} -> 3
      [] p \in {"base_validate"} -> 4
      [] p \in {"b2s_persist", "base_save"} -> 5
      [] p \in {"gold_return"} -> 6
      [] p \in {"ret", "escaped"} -> 8
      [] OTHER -> 9

Progress ==
    1000 * loc.idx + 100 * Rank(pc) + 10 * loc.product
        + (IF pc = "gold_save" THEN 5 ELSE 0) + loc.retry_count

\* C2: no exception escapes process_indicator (either orchestrator) or
\* process_gold_layer, whatever the storage client or the policy raises at
\* any step; the call returns a boolean, and False when no write completed;
\* it goes on to its return: every step moves the run on.
C2_NoEscape ==
    [][/\ pc' # "escaped"
       /\ loc'.ret \in BOOLEAN
       /\ (pc' = "ret" /\ ~Completed') => loc'.ret = FALSE
       /\ Progress' > Progress]_vars

\* the policy raised and the call returned False
C2_Witness ==
    /\ pc = "ret"
    /\ loc.ret = FALSE
    /\ ghost.cur.policy # <<>>
    /\ ghost.cur.policy[Len(ghost.cur.policy)].kind = "raise"

\* C3: when the indicator key has no registered policy, or no object exists
\* under the stage's prefix for the indicator, process_indicator reads no
\* object, invokes no policy, leaves the store as it was and returns False.
C3_NothingTouched ==
    (/\ InCall
     /\ loc.kind \in {"b2s", "base"}
     /\ \/ loc.kind = "b2s" /\ Indicator \notin Range(FiveIndicators)
        \/ MatchingIn(ghost.before, StagePrefix(loc.kind, Indicator)) = {}) =>
        /\ ghost.cur.reads = <<>>
        /\ ghost.cur.policy = <<>>
        /\ ghost.cur.writes = <<>>
        /\ store = ghost.before
        /\ pc \in {"b2s_discover", "base_load", "ret"}
        /\ pc = "ret" => loc.ret = FALSE

\* an unknown key was refused although objects lie under its prefix
C3_Witness ==
    /\ pc = "ret"
    /\ loc.kind = "b2s"
    /\ Indicator = IPCA15
    /\ Matching(B2SPrefix(IPCA15)) # {}
    /\ loc.ret = FALSE

\* C4: the Load step reads one object per indicator per run, and that object
\* is the greatest key under the indicator's prefix, in whatever order the
\* listing returned the keys.
C4_ReadsGreatest ==
    LET reads == ghost.cur.reads
    IN /\ \A i \in 1..Len(reads) :
             reads[i].key =
                Greatest(MatchingIn(ghost.before, StagePrefix(loc.kind, reads[i].ind)))
       /\ \A i, j \in 1..Len(reads) :
             (loc.kind \in {"b2s", "gold"} /\ reads[i].ind = reads[j].ind) => i = j
       /\ pc \in {"b2s_load"} => loc.latest =
                Greatest(MatchingIn(ghost.before, StagePrefix(loc.kind, Indicator)))
       /\ pc \in {"b2s_transform", "b2s_persist", "base_transform", "base_validate",
                   "base_save"} =>
             /\ reads # <<>>
             /\ loc.kind = "b2s" => Len(reads) = 1

\* the newest of several snapshots was read
C4_Witness ==
    /\ pc = "b2s_transform"
    /\ Cardinality(Matching(B2SPrefix(Indicator))) >= 3
    /\ ghost.cur.reads = << [ind |-> IPCA, key |-> Bronze(IPCA, 1)] >>

\* the policy returned a non-empty table
PolicyOutput ==
    /\ ghost.cur.policy # <<>>
    /\ ghost.cur.policy[1].kind = "return"
    /\ ~NoneOrEmpty(ghost.cur.policy[1].table)

\* C6: in BaseTransformer.process_indicator, whenever the policy output is
\* non-empty the write is attempted with exactly that output, whether the
\* validation passed or failed: the verdict changes neither what is written
\* nor the value returned, which is that of the write alone.
C6_ValidationAdvisory ==
    (loc.kind = "base" /\ InCall /\ PolicyOutput) =>
        LET writes == ghost.cur.writes
        IN /\ pc \in {"base_validate", "base_save", "ret"}
           /\ \A i \in 1..Len(writes) : writes[i].df = ghost.cur.policy[1].table
           /\ pc = "base_save" => Len(ghost.cur.valid) = 1
           /\ pc = "ret" =>
                /\ Len(ghost.cur.valid) = 1
                /\ writes # <<>>
                /\ loc.ret = writes[Len(writes)].ok

\* a table that failed the validation was written and reported True
C6_Witness ==
    /\ pc = "ret"
    /\ loc.kind = "base"
    /\ ghost.cur.valid = << FALSE >>
    /\ ghost.cur.writes # <<>>
    /\ ~validate_dataset(ghost.cur.writes[1].df, RequiredColumns, NullThresholdPct)
    /\ loc.ret = TRUE

\* C7: in BaseTransformer.process_indicator the write is attempted at most 3
\* times; the first attempt that works ends them and the call returns True;
\* the call returns False after a write only when all 3 attempts failed; the
\* policy is invoked once, never again, whatever the writes do.
C7_SaveRetries ==
    loc.kind = "base" =>
        LET writes == ghost.cur.writes
        IN /\ Len(writes) <= SaveRetries + 1
           /\ Len(ghost.cur.policy) <= 1
           /\ writes # <<>> => Len(ghost.cur.policy) = 1
           /\ \A i \in 1..(Len(writes) - 1) : ~writes[i].ok
           /\ (pc = "base_save" /\ writes # <<>>) => ~writes[Len(writes)].ok
           /\ pc = "ret" =>
                /\ loc.ret = (writes # <<>> /\ writes[Len(writes)].ok)
                /\ (writes # <<>> /\ ~loc.ret) => Len(writes) = SaveRetries + 1
                /\ ghost.cur.read_ok => Len(ghost.cur.policy) = 1

\* the write failed twice and went through at the third attempt
C7_Witness ==
    /\ pc = "ret"
    /\ loc.kind = "base"
    /\ Len(ghost.cur.writes) = 3
    /\ ghost.cur.writes[3].ok
    /\ Len(ghost.cur.policy) = 1
    /\ loc.ret = TRUE

\* C10: process_gold_layer returns True exactly when one of the three
\* products was built non-empty and its write to the gold layer went through;
\* when no silver indicator was loaded it returns False and no product is
\* built or written.
C10_GoldSuccess ==
    (loc.kind = "gold" /\ pc \in {"ret", "done"}) =>
        LET writes == ghost.cur.writes
        IN /\ loc.ret = (\E i \in 1..Len(writes) : writes[i].ok)
           /\ \A i \in 1..Len(writes) :
                /\ ~NoneOrEmpty(writes[i].df)
                /\ \E p \in 1..Len(Products) :
                      StartsWith(writes[i].key, Path(GOLD, DASHBOARDS, Products[p]))
                /\ writes[i].ok => writes[i].key \in DOMAIN store
           /\ NothingLoaded(loc.loaded) =>
                /\ loc.ret = FALSE
                /\ ghost.cur.policy = <<>>
                /\ writes = <<>>
                /\ store = ghost.before

\* one product failed to be written, another was written: the run is True
C10_Witness ==
    /\ pc = "ret"
    /\ loc.kind = "gold"
    /\ loc.ret = TRUE
    /\ \E i \in 1..Len(ghost.cur.writes) : ~ghost.cur.writes[i].ok

\* the products whose builder returned a non-empty panel, in code order
BuiltProducts(h) ==
    SelectSeq(<<1, 2, 3>>, LAMBDA p :
        /\ p <= Len(h.policy)
        /\ h.policy[p].kind = "return"
        /\ ~NoneOrEmpty(h.policy[p].table))

\* C11: process_gold_layer handles the three products independently and in
\* the order monthly_indicators, labor_market, macro_dashboard: whatever one
\* product does (its builder raises, returns an empty panel, or its write
\* fails), every later builder is still invoked, and the writes of a run are
\* exactly one write per product built non-empty, in product order; so a run
\* makes at most three writes, and three when all three builds are non-empty.
C11_ProductsIndependent ==
    LET h == ghost.cur
        built == BuiltProducts(h)
    IN /\ pc = "gold_build" => Len(h.policy) = loc.product - 1
       /\ pc = "gold_save" => Len(h.policy) = loc.product
       /\ pc = "gold_return" =>
            /\ Len(h.policy) = Len(Products)
            /\ Len(h.writes) = Len(built)
            /\ Len(h.writes) <= Len(Products)
            /\ \A i \in 1..Len(h.writes) :
                  /\ StartsWith(h.writes[i].key,
                                Path(GOLD, DASHBOARDS, Products[built[i]]))
                  /\ h.writes[i].df = h.policy[built[i]].table
            /\ loc.success_count =
                  Cardinality({i \in 1..Len(h.writes) : h.writes[i].ok})

\* the monthly builder raised and the labour write failed, and the macro
\* dashboard was still built and written
C11_Witness ==
    /\ pc = "gold_return"
    /\ ghost.cur.policy[1].kind = "raise"
    /\ Len(ghost.cur.writes) = 2
    /\ ~ghost.cur.writes[1].ok
    /\ ghost.cur.writes[2].ok

\* all three builds non-empty: exactly three writes
C11_WitnessThree ==
    /\ pc = "gold_return"
    /\ BuiltProducts(ghost.cur) = <<1, 2, 3>>
    /\ Len(ghost.cur.writes) = 3

\* C12: every successful write creates an object under a key that did not
\* exist before it, and no object that exists is overwritten, modified or
\* deleted, two writes for the same indicator or product within one clock
\* second included. Stated against the store at the start of the call.
C12_WriteOnce ==
    /\ \A k \in DOMAIN ghost.before :
          k \in DOMAIN store /\ store[k] = ghost.before[k]
    /\ \A i \in 1..Len(ghost.cur.writes) :
          ghost.cur.writes[i].ok => ghost.cur.writes[i].key \notin DOMAIN ghost.before

\* the second call for an indicator in the same second wrote over the object
\* the first call had stored
C12_Witness ==
    /\ pc = "ret"
    /\ loc.kind = "base"
    /\ loc.idx = 2
    /\ ghost.drift = 0
    /\ ghost.cur.writes # <<>>
    /\ LET w == ghost.cur.writes[Len(ghost.cur.writes)]
       IN /\ w.ok
          /\ w.key \in DOMAIN ghost.before
          /\ w.key = Key(SILVER, ECONOMIC_INDICATORS, IPCA, clock)

\* what the store does: objects are never removed, and an object changes only
\* through a successful write under its own key
C12_NoDelete ==
    /\ DOMAIN ghost.before \subseteq DOMAIN store
    /\ \A k \in DOMAIN ghost.before :
          store[k] # ghost.before[k] =>
              \E i \in 1..Len(ghost.cur.writes) :
                  ghost.cur.writes[i].ok /\ ghost.cur.writes[i].key = k

(***************************************************************************)
(* The pipeline: a collector stores a raw snapshot, then the bronze to     *)
(* silver stage processes the same indicator.                              *)
(***************************************************************************)
\* @error_handler(retries=3, retry_delay=5) on BaseCollector._store_data
CollectorRetries == 3

\* get_source_name() of the collectors
Sources == { BCB, IBGE }

\* one call of _store_data by its wrapper: upload_dataframe to the bronze layer
StoreData ==
    /\ pc = "collect"
    /\ \E d \in Drifts, o \in ClientOutcomes :
          LET file_path == loc.source \o UNDERSCORE_INDICATORS
              full_path == Key(BRONZE, file_path, Indicator, clock + d)
              e == IF o = "raise"
                   THEN ToProcessingError(ClientError, << "Erro", "ao", "armazenar" >>)
                   ELSE ProcessingError(<< "Falha", "no", "armazenamento" >>,
                                        S3_ACCESS_ERROR, NoDetails)
              w == WrapperOnRaise(loc.retry_count, CollectorRetries, {"Exception"}, e,
                                  "_store_data")
          IN /\ store' = IF o = "ok" THEN Put(store, full_path, Valid2) ELSE store
             /\ ghost' = [ghost EXCEPT !.drift = @ + d,
                                       !.stored = IF o = "ok" THEN full_path ELSE @]
             /\ IF o = "ok"
                THEN /\ clock' = clock + d
                     /\ pc' = "call"
                     /\ loc' = [loc EXCEPT !.retry_count = 0]
                ELSE IF w.do = "retry"
                THEN /\ clock' = clock + d + RetryDelay
                     /\ pc' = pc
                     /\ loc' = [loc EXCEPT !.retry_count = w.retry_count]
                ELSE /\ clock' = clock + d
                     /\ pc' = "done"
                     /\ loc' = loc
    /\ UNCHANGED <<results, eh, calc>>

InitPipeline ==
    /\ store \in InitialStores
    /\ clock = 2
    /\ pc = "collect"
    /\ \E src \in Sources, i \in { IPCA, SELIC } :
          loc = [Loc0 EXCEPT !.kind = "b2s", !.mode = "single", !.todo = << i >>,
                             !.source = src]
    /\ results = EmptyMap
    /\ ghost = [Ghost0 EXCEPT !.before = store]
    /\ eh = EHIdle
    /\ calc = CalcIdle

NextPipeline ==
    \/ StoreData
    \/ StartCall
    \/ CallReturned
    \/ B2SDiscover
    \/ B2SLoad
    \/ B2STransform
    \/ B2SPersist

SpecPipeline == InitPipeline /\ [][NextPipeline]_vars

\* the collector stored its snapshot and nothing went wrong afterwards: every
\* call of the storage client worked and the policy, if it was reached,
\* returned a non-empty table
StoredAndNoFault ==
    /\ pc = "done"
    /\ ghost.stored # <<>>
    /\ ghost.calls = 1
    /\ ~ghost.cur.fault
    /\ ghost.cur.policy # <<>> => PolicyOutput

\* C5: after the collector's store step has stored a raw snapshot of an
\* indicator in the bronze layer, a following bronze-to-silver
\* process_indicator of that indicator discovers that snapshot, returns True,
\* and an object exists under silver/economic_indicators/{indicator}.
C5_StoredThenProcessed ==
    StoredAndNoFault =>
        /\ ghost.cur.reads = << [ind |-> Indicator, key |-> ghost.stored] >>
        /\ loc.ret = TRUE
        /\ Matching(Path(SILVER, ECONOMIC_INDICATORS, Indicator)) # {}

\* the snapshot is in the bronze layer, no call failed, and process_indicator
\* returned False without reading it
C5_Witness ==
    /\ StoredAndNoFault
    /\ ghost.stored \in DOMAIN store
    /\ ghost.cur.lists = 1
    /\ ghost.cur.reads = <<>>
    /\ loc.ret = FALSE

\* what the code does instead: the stage lists bronze/economic_indicators/ and
\* never reads a key the collector wrote under bronze/{source}_indicators/
C5_NeverReadsCollected ==
    \A i \in 1..Len(ghost.cur.reads) :
        /\ ghost.cur.reads[i].key # ghost.stored
        /\ StartsWith(ghost.cur.reads[i].key, Path(BRONZE, ECONOMIC_INDICATORS, <<>>))

(***************************************************************************)
(* A function wrapped by error_handler (generic wrapper runs).             *)
(***************************************************************************)
SampleExceptions ==
    { PlainError("ValueError", << "Erro", "de", "teste" >>),
      PlainError("TypeError", << "Erro", "de", "tipo" >>),
      PlainError("ConnectionError", << "timeout" >>),
      PlainError("ValueError", << "S3", "down" >>),
      ProcessingError(<< "Erro", "especifico" >>, COLLECTOR_API_ERROR,
                      [k \in {"api"} |-> << "test_api" >>]) }

\* what one call of the wrapped function does
Behaviours ==
    { [kind |-> "return", value |-> "Sucesso", exc |-> PlainError("none", <<>>)] }
    \cup { [kind |-> "raise", value |-> "none", exc |-> e] : e \in SampleExceptions }

HandledChoices ==
    { {"Exception"}, {"ValueError", "KeyError"}, {"ProcessingError", "TypeError"} }

Scripts == UNION { [1..n -> Behaviours] : n \in 1..MaxScript }

\* the i-th call of the function: the script's last entry repeats for ever
Behaviour(i) == eh.script[Min(i, Len(eh.script))]

\* wrapper(*args): retry_count = 0, then the while True loop
EHInit ==
    \E r \in 0..MaxRetries, d \in {0, 5}, h \in HandledChoices, sc \in Scripts :
        eh = [EHIdle EXCEPT !.state = "running", !.retries = r,
                            !.retry_delay = d, !.handled = h, !.script = sc]

\* return func(*args, **kwargs)
EHCallReturns ==
    /\ eh.state = "running"
    /\ Behaviour(eh.calls + 1).kind = "return"
    /\ eh' = [eh EXCEPT !.state = "returned", !.calls = @ + 1,
                        !.out = Behaviour(eh.calls + 1)]
    /\ UNCHANGED <<store, clock, pc, loc, results, ghost, calc>>

\* the call raises an exception that no except clause of the wrapper matches
EHCallPropagates ==
    /\ eh.state = "running"
    /\ Behaviour(eh.calls + 1).kind = "raise"
    /\ LET w == WrapperOnRaise(eh.retry_count, eh.retries, eh.handled,
                               Behaviour(eh.calls + 1).exc, "func")
       IN /\ w.do = "propagate"
          /\ eh' = [eh EXCEPT !.state = "raised", !.calls = @ + 1,
                              !.out = [kind |-> "raise", value |-> "none",
                                       exc |-> w.exc]]
    /\ UNCHANGED <<store, clock, pc, loc, results, ghost, calc>>

\* the call raises a handled exception and the retries are used up
EHCallGivesUp ==
    /\ eh.state = "running"
    /\ Behaviour(eh.calls + 1).kind = "raise"
    /\ LET w == WrapperOnRaise(eh.retry_count, eh.retries, eh.handled,
                               Behaviour(eh.calls + 1).exc, "func")
       IN /\ w.do = "raise"
          /\ eh' = [eh EXCEPT !.state = "raised", !.calls = @ + 1,
                              !.retry_count = w.retry_count,
                              !.out = [kind |-> "raise", value |-> "none",
                                       exc |-> w.exc]]
    /\ UNCHANGED <<store, clock, pc, loc, results, ghost, calc>>

\* the call raises a handled exception: time.sleep(retry_delay), loop again
EHCallRetries ==
    /\ eh.state = "running"
    /\ Behaviour(eh.calls + 1).kind = "raise"
    /\ LET w == WrapperOnRaise(eh.retry_count, eh.retries, eh.handled,
                               Behaviour(eh.calls + 1).exc, "func")
       IN /\ w.do = "retry"
          /\ eh' = [eh EXCEPT !.calls = @ + 1, !.retry_count = w.retry_count]
    /\ clock' = clock + eh.retry_delay
    /\ UNCHANGED <<store, pc, loc, results, ghost, calc>>

InitEH ==
    /\ EHInit
    /\ store = EmptyMap
    /\ clock = 0
    /\ pc = "unused"
    /\ loc = Loc0
    /\ results = EmptyMap
    /\ ghost = Ghost0
    /\ calc = CalcIdle

NextEH ==
    \/ EHCallReturns
    \/ EHCallPropagates
    \/ EHCallGivesUp
    \/ EHCallRetries

SpecEH == InitEH /\ [][NextEH]_vars

\* the function raises a handled exception on each of its first n calls
FailsFirst(n) ==
    \A i \in 1..n : /\ Behaviour(i).kind = "raise"
                    /\ IsHandled(Behaviour(i).exc, eh.handled)

EHFinished == eh.state \in {"returned", "raised"}

\* C8: a wrapped function that raises a handled exception on its first k calls
\* and then returns a value: with k <= retries the wrapper returns that value
\* after exactly k+1 calls; with k > retries it raises ProcessingError after
\* exactly retries+1 calls; the function is never called more than retries+1
\* times.
C8_RetryCount ==
    /\ eh.calls <= eh.retries + 1
    /\ EHFinished =>
        \A k \in 0..(MaxScript - 1) :
            (FailsFirst(k) /\ Behaviour(k + 1).kind = "return") =>
                IF k <= eh.retries
                THEN /\ eh.state = "returned"
                     /\ eh.out.value = Behaviour(k + 1).value
                     /\ eh.calls = k + 1
                ELSE /\ eh.state = "raised"
                     /\ eh.out.exc.type = "ProcessingError"
                     /\ eh.calls = eh.retries + 1

\* two failures, then success on the third call with retries = 2
C8_Witness ==
    /\ eh.state = "returned"
    /\ eh.retries = 2
    /\ eh.calls = 3
    /\ FailsFirst(2)

\* one more failure than retries allows: the wrapper gave up on a function
\* that would have returned on its next call
C8_WitnessExceeded ==
    /\ eh.state = "raised"
    /\ eh.retries = 1
    /\ eh.calls = 2
    /\ FailsFirst(2)
    /\ Behaviour(3).kind = "return"

\* C9: the exception that leaves the wrapper is the function's own
\* ProcessingError (code and details unchanged) when it gave up on a
\* ProcessingError; a new ProcessingError wrapping the message when it gave up
\* on another handled exception; and an exception no handled class matches
\* leaves unchanged, the call that raised it being the last (the only one when
\* it is the first call).
C9_LeavingException ==
    eh.state = "raised" =>
        LET e == Behaviour(eh.calls).exc
            o == eh.out.exc
        IN /\ (IsHandled(e, eh.handled) /\ e.type = "ProcessingError") =>
                /\ o = e
                /\ eh.calls = eh.retries + 1
           /\ (IsHandled(e, eh.handled) /\ e.type # "ProcessingError") =>
                /\ o.type = "ProcessingError"
                /\ o.msg = << "Erro", "em", "func" >> \o e.msg
                /\ o.details["original_error"] = e.msg
                /\ eh.calls = eh.retries + 1
           /\ ~IsHandled(e, eh.handled) =>
                /\ o = e
                /\ FailsFirst(eh.calls - 1)
           /\ (Behaviour(1).kind = "raise"
                    /\ ~IsHandled(Behaviour(1).exc, eh.handled)) =>
                /\ eh.calls = 1
                /\ eh.retry_count = 0
                /\ o = Behaviour(1).exc

\* the wrapper gave up on a ProcessingError carrying a code and details
C9_Witness ==
    /\ eh.state = "raised"
    /\ eh.retries >= 1
    /\ eh.out.exc.type = "ProcessingError"
    /\ eh.out.exc.code = COLLECTOR_API_ERROR
    /\ "api" \in DOMAIN eh.out.exc.details
    /\ IsHandled(Behaviour(eh.calls).exc, eh.handled)

\* a TypeError outside handled_exceptions left the wrapper after one call
C9_WitnessUnhandled ==
    /\ eh.state = "raised"
    /\ eh.retries >= 1
    /\ eh.calls = 1
    /\ eh.out.exc.type = "TypeError"

(***************************************************************************)
(* pandas operations used by the gold builders.                            *)
(***************************************************************************)
SeqToSet(s) == { s[i] : i \in 1..Len(s) }

\* numbers that are not whole: n / d with d > 0
Rat(n, d) == [n |-> n, d |-> d]

RatLess(a, b) == a.n * b.d < b.n * a.d

\* a calendar date (a pandas Timestamp at midnight)
Date(y, m, d) == [y |-> y, m |-> m, d |-> d]

DateLess(a, b) ==
    \/ a.y < b.y
    \/ a.y = b.y /\ a.m < b.m
    \/ a.y = b.y /\ a.m = b.m /\ a.d < b.d

FourDigits(n) == TwoDigits(n \div 100) \o TwoDigits(n % 100)

\* Series.dt.strftime('%Y-%m') of one cell; NaT gives a null
strftime_ym(cell) ==
    IF cell = NULL THEN NULL
    ELSE << FourDigits(cell[1].y) \o DASH \o TwoDigits(cell[1].m) >>

\* df[cols]
select(df, cols) ==
    Table(cols, [i \in 1..Len(df.rows) |->
                    [c \in SeqToSet(cols) |-> df.rows[i][c]]])

\* the new name of column c under df.rename(columns=mapping)
NewName(mapping, c) == IF c \in DOMAIN mapping THEN mapping[c] ELSE c

\* df.rename(columns=mapping)
rename(df, mapping) ==
    Table([i \in 1..Len(df.cols) |-> NewName(mapping, df.cols[i])],
          [i \in 1..Len(df.rows) |->
              [c \in { NewName(mapping, x) : x \in ColSet(df) } |->
                  df.rows[i][CHOOSE x \in ColSet(df) : NewName(mapping, x) = c]]])

\* df[col] = cells, one cell per row
assign(df, col, cells) ==
    Table(IF col \in ColSet(df) THEN df.cols ELSE Append(df.cols, col),
          [i \in 1..Len(df.rows) |->
              [c \in ColSet(df) \cup {col} |->
                  IF c = col THEN cells[i] ELSE df.rows[i][c]]])

\* df.drop(col, axis=1)
drop(df, col) ==
    select(df, SelectSeq(df.cols, LAMBDA c : c # col))

\* the distinct values of a list of strings, in Python's string order
RECURSIVE Distinct(_)
Distinct(s) ==
    IF s = <<>> THEN <<>>
    ELSE IF Len(s) > 1 /\ s[1] = s[2] THEN Distinct(Tail(s))
    ELSE << Head(s) >> \o Distinct(Tail(s))

\* the keys of an outer merge: the union of both sides' keys, sorted
merge_keys(left, right, on) ==
    Distinct(sorted([i \in 1..Len(left.rows) |-> left.rows[i][on][1]]
                    \o [i \in 1..Len(right.rows) |-> right.rows[i][on][1]]))

NullRow(cols) == [c \in cols |-> NULL]

\* the rows an outer merge gives for one key: every pairing of a left row
\* with a right row of that key, or the rows of one side padded with nulls
merge_rows(left, right, on, k) ==
    LET L == SelectSeq(left.rows, LAMBDA r : r[on] = <<k>>)
        R == SelectSeq(right.rows, LAMBDA r : r[on] = <<k>>)
    IN IF R = <<>>
       THEN [i \in 1..Len(L) |-> L[i] @@ NullRow(ColSet(right))]
       ELSE IF L = <<>>
       THEN [i \in 1..Len(R) |-> R[i] @@ NullRow(ColSet(left))]
       ELSE [n \in 1..(Len(L) * Len(R)) |->
                L[((n - 1) \div Len(R)) + 1] @@ R[((n - 1) % Len(R)) + 1]]

RECURSIVE merge_all(_, _, _, _)
merge_all(left, right, on, keys) ==
    IF keys = <<>> THEN <<>>
    ELSE merge_rows(left, right, on, Head(keys))
            \o merge_all(left, right, on, Tail(keys))

\* pd.merge(left, right, on=on, how='outer', suffixes=('', suffix)): a column
\* of both sides other than `on` keeps its name on the left and takes the
\* suffix on the right
merge(left, right, on, suffix) ==
    LET overlap == (ColSet(left) \cap ColSet(right)) \ {on}
        r == rename(right, [c \in overlap |-> c \o suffix])
    IN Table(left.cols \o SelectSeq(r.cols, LAMBDA c : c # on),
             merge_all(left, r, on, merge_keys(left, r, on)))

\* df.sort_values(col) on a column of strings: rows in non-decreasing order of
\* the cell, rows of equal cells in the order they had
RECURSIVE InsertRow(_, _, _)
InsertRow(r, rows, col) ==
    IF rows = <<>> THEN << r >>
    ELSE IF ~StrLess(Head(rows)[col][1], r[col][1]) THEN << r >> \o rows
    ELSE << Head(rows) >> \o InsertRow(r, Tail(rows), col)

RECURSIVE SortRows(_, _)
SortRows(rows, col) ==
    IF rows = <<>> THEN <<>>
    ELSE InsertRow(Head(rows), SortRows(Tail(rows), col), col)

sort_values(df, col) == Table(df.cols, SortRows(df.rows, col))

(***************************************************************************)
(* EconomicIndicatorsGoldTransformer.create_monthly_indicators. Numeric    *)
(* cells are whole numbers of hundredths (0.53 is 53); the pressure index  *)
(* is a fraction.                                                          *)
(***************************************************************************)
\* pd.DataFrame()
EmptyFrame == Table(<<>>, <<>>)

Returned(df) == [kind |-> "return", table |-> df]
Raised == [kind |-> "raise", table |-> None]

\* a guard that takes a key for present even when it holds None
MonthlyKeysPresent(indicators) ==
    \A k \in {IPCA, SELIC, CAMBIO} : k \in DOMAIN indicators

\* all(k in indicators and indicators[k] is not None
\*     for k in ['ipca', 'selic', 'cambio'])
MonthlyInputsPresent(indicators) ==
    \A k \in {IPCA, SELIC, CAMBIO} :
        k \in DOMAIN indicators /\ ~indicators[k].isNone

Optional(df, col) == IF col \in ColSet(df) THEN << col >> ELSE <<>>

\* the first of two alternative columns that the table has
FirstOf(df, a, b) ==
    IF a \in ColSet(df) THEN << a >> ELSE Optional(df, b)

ipca_cols(df) ==
    << "date", "value" >> \o Optional(df, "monthly_change_pct")
        \o Optional(df, "year_over_year_pct")

selic_cols(df) == << "date", "value" >> \o Optional(df, "moving_avg_3m")

cambio_cols(df) ==
    << "date", "value" >> \o FirstOf(df, "monthly_change_pct", "return_pct")
        \o FirstOf(df, "volatility", "volatility_20")

ipca_rename ==
    [value |-> "ipca", monthly_change_pct |-> "ipca_monthly_change",
     year_over_year_pct |-> "ipca_annual_change"]

selic_rename == [value |-> "selic", moving_avg_3m |-> "selic_moving_avg"]

cambio_rename ==
    [value |-> "cambio", monthly_change_pct |-> "cambio_monthly_change",
     return_pct |-> "cambio_monthly_change",
     volatility |-> "cambio_volatility", volatility_20 |-> "cambio_volatility"]

\* df['year_month'] = df['date'].dt.strftime('%Y-%m')
with_year_month(df) ==
    assign(df, "year_month", [i \in 1..Len(df.rows) |-> strftime_ym(df.rows[i].date)])

\* selic - ipca, null where either is null
real_interest_rate(panel) ==
    IF {"selic", "ipca"} \subseteq ColSet(panel)
    THEN assign(panel, "real_interest_rate",
                [i \in 1..Len(panel.rows) |->
                    LET r == panel.rows[i]
                    IN IF r.selic = NULL \/ r.ipca = NULL THEN NULL
                       ELSE << r.selic[1] - r.ipca[1] >>])
    ELSE panel

\* the weights 0.4, 0.3 and 0.3 of the pressure index, in tenths
IpcaAnnualChangeWeight == 4
SelicWeight == 3
CambioVolatilityWeight == 3

Minimum(S) == CHOOSE x \in S : \A y \in S : x <= y
Maximum(S) == CHOOSE x \in S : \A y \in S : y <= x

\* 0.4 * ipca_annual_change + 0.3 * selic + 0.3 * cambio_volatility, in
\* thousandths; null where a term is null
weighted(r) ==
    IF r.ipca_annual_change = NULL \/ r.selic = NULL \/ r.cambio_volatility = NULL
    THEN NULL
    ELSE << IpcaAnnualChangeWeight * r.ipca_annual_change[1]
            + SelicWeight * r.selic[1]
            + CambioVolatilityWeight * r.cambio_volatility[1] >>

\* the economic_pressure_index column: the weighted sum, rescaled to 0..100
\* by its minimum and maximum when they differ; without the weighted sum's
\* columns, selic + ipca
economic_pressure_index(panel) ==
    IF {"ipca_annual_change", "selic", "cambio_volatility"} \subseteq ColSet(panel)
    THEN LET raw == [i \in 1..Len(panel.rows) |-> weighted(panel.rows[i])]
             vals == { raw[i][1] : i \in { j \in 1..Len(raw) : raw[j] # NULL } }
         IN IF vals # {} /\ Maximum(vals) > Minimum(vals)
            THEN assign(panel, "economic_pressure_index",
                    [i \in 1..Len(raw) |->
                        IF raw[i] = NULL THEN NULL
                        ELSE << Rat((raw[i][1] - Minimum(vals)) * 100,
                                    Maximum(vals) - Minimum(vals)) >>])
            ELSE assign(panel, "economic_pressure_index",
                    [i \in 1..Len(raw) |->
                        IF raw[i] = NULL THEN NULL ELSE << Rat(raw[i][1], 1000) >>])
    ELSE IF {"selic", "ipca"} \subseteq ColSet(panel)
    THEN assign(panel, "economic_pressure_index",
            [i \in 1..Len(panel.rows) |->
                LET r == panel.rows[i]
                IN IF r.selic = NULL \/ r.ipca = NULL THEN NULL
                   ELSE << Rat(r.selic[1] + r.ipca[1], 100) >>])
    ELSE panel

DropIfPresent(df, col) == IF col \in ColSet(df) THEN drop(df, col) ELSE df

\* the two outer merges on year_month and the removal of the right sides' dates
monthly_merge(ipca_selected, selic_selected, cambio_selected) ==
    DropIfPresent(
        DropIfPresent(
            merge(merge(ipca_selected, selic_selected, "year_month", "_selic"),
                  cambio_selected, "year_month", "_cambio"),
            "date_selic"),
        "date_cambio")

prepare(df, cols, mapping) ==
    with_year_month(rename(select(df, cols), mapping))

create_monthly_indicators(indicators, now) ==
    IF ~MonthlyInputsPresent(indicators) THEN Returned(EmptyFrame)
    ELSE LET ipca_df == indicators[IPCA]
             selic_df == indicators[SELIC]
             cambio_df == indicators[CAMBIO]
         IN IF \E df \in {ipca_df, selic_df, cambio_df} :
                  ~({"date", "value"} \subseteq ColSet(df))
            THEN Raised
            ELSE LET monthly_panel ==
                        monthly_merge(
                            prepare(ipca_df, ipca_cols(ipca_df), ipca_rename),
                            prepare(selic_df, selic_cols(selic_df), selic_rename),
                            prepare(cambio_df, cambio_cols(cambio_df), cambio_rename))
                     sorted_panel ==
                        sort_values(economic_pressure_index(
                                        real_interest_rate(monthly_panel)),
                                    "year_month")
                 IN Returned(assign(sorted_panel, "updated_at",
                                    [i \in 1..Len(sorted_panel.rows) |-> << now >>]))

(***************************************************************************)
(* create_monthly_indicators applied to a dict of silver tables.           *)
(***************************************************************************)
\* rows of a silver table handed to a gold builder
MaxRows == 2

SeqsUpTo(S, n) == UNION { [1..k -> S] : k \in 0..n }

December == Date(2023, 12, 1)
January == Date(2024, 1, 1)
MidJanuary == Date(2024, 1, 15)

\* silver ipca rows: a month of deflation whose year-over-year change of the
\* monthly rate is large and negative, and ordinary months
IpcaRow(date, v, yoy) ==
    [date |-> << date >>, value |-> << v >>, year_over_year_pct |-> yoy]

IpcaRows ==
    { IpcaRow(December, -38, << -17170 >>), IpcaRow(December, 53, << 462 >>),
      IpcaRow(January, 53, << 462 >>), IpcaRow(MidJanuary, 56, NULL) }

SelicRow(date, v) == [date |-> << date >>, value |-> << v >>]

SelicRows == { SelicRow(December, 1175), SelicRow(January, 1125) }

CambioRow(date, v, vol) ==
    [date |-> << date >>, value |-> << v >>, volatility |-> << vol >>]

CambioRows == { CambioRow(December, 490, 12), CambioRow(January, 495, 0) }

IpcaCols == << "date", "value", "year_over_year_pct" >>
CambioCols == << "date", "value", "volatility" >>
DateValue == << "date", "value" >>

IpcaTables ==
    LET full == { Table(IpcaCols, rows) : rows \in SeqsUpTo(IpcaRows, MaxRows) }
    IN full \cup { select(t, DateValue) : t \in full }

SelicTables ==
    { Table(DateValue, rows) : rows \in SeqsUpTo(SelicRows, MaxRows) }
    \cup { Table(<< "date" >>, << [date |-> << January >>] >>) }

CambioTables ==
    LET full == { Table(CambioCols, rows) : rows \in SeqsUpTo(CambioRows, MaxRows) }
    IN full \cup { select(t, DateValue) : t \in full }

\* a key of the dict: absent, holding None, or holding a table
Choices(tables) ==
    { [present |-> FALSE, df |-> None] }
    \cup { [present |-> TRUE, df |-> t] : t \in tables \cup {None} }

Dict(ch) == [k \in { x \in DOMAIN ch : ch[x].present } |-> ch[k].df]

MonthlyInputs ==
    { Dict(IPCA :> i @@ SELIC :> s @@ CAMBIO :> c) :
        i \in Choices(IpcaTables), s \in Choices(SelicTables),
        c \in Choices(CambioTables) }

NoOutput == [kind |-> "none", table |-> None]

InitMonthly ==
    /\ \E indicators \in MonthlyInputs :
          calc = [fn |-> "monthly", done |-> FALSE, args |-> indicators,
                  out |-> NoOutput]
    /\ store = EmptyMap
    /\ clock = 0
    /\ pc = "unused"
    /\ loc = Loc0
    /\ results = EmptyMap
    /\ ghost = Ghost0
    /\ eh = EHIdle

CreateMonthly ==
    /\ calc.fn = "monthly"
    /\ ~calc.done
    /\ calc' = [calc EXCEPT !.done = TRUE,
                            !.out = create_monthly_indicators(calc.args, clock)]
    /\ UNCHANGED <<store, clock, pc, loc, results, ghost, eh>>

NextMonthly == CreateMonthly

SpecMonthly == InitMonthly /\ [][NextMonthly]_vars

(***************************************************************************)
(* Properties of create_monthly_indicators.                                *)
(***************************************************************************)
MonthlyDone == calc.fn = "monthly" /\ calc.done

\* the key holds a table (it is present and not None)
Holds(indicators, k) == k \in DOMAIN indicators /\ ~indicators[k].isNone

C13_WitnessPanel ==
    /\ MonthlyDone
    /\ calc.out.kind = "return"
    /\ Len(calc.out.table.rows) = 2

\* the year_month cells of a panel, in row order
YearMonths(df) == [i \in 1..Len(df.rows) |-> df.rows[i].year_month[1]]

NonDecreasing(s) == \A i \in 1..(Len(s) - 1) : ~StrLess(s[i + 1], s[i])

\* ipca and selic hold tables with rows and there is no cambio key
OnlyIpcaAndSelic(indicators) ==
    /\ DOMAIN indicators = {IPCA, SELIC}
    /\ \A k \in {IPCA, SELIC} :
          /\ ~NoneOrEmpty(indicators[k])
          /\ {"date", "value"} \subseteq ColSet(indicators[k])

\* C14: given only ipca and selic (no FX table), create_monthly_indicators
\* returns a non-empty panel with the columns year_month, ipca, selic and
\* real_interest_rate, its rows in non-decreasing year_month order.
C14_TwoInputPanel ==
    (MonthlyDone /\ OnlyIpcaAndSelic(calc.args)) =>
        /\ calc.out.kind = "return"
        /\ ~IsEmpty(calc.out.table)
        /\ {"year_month", "ipca", "selic", "real_interest_rate"}
              \subseteq ColSet(calc.out.table)
        /\ NonDecreasing(YearMonths(calc.out.table))

\* ipca and selic tables with rows and no cambio: pd.DataFrame() comes back
C14_Witness ==
    /\ MonthlyDone
    /\ OnlyIpcaAndSelic(calc.args)
    /\ calc.out = Returned(EmptyFrame)

\* what the code does give: every panel it returns with rows has the four
\* columns and is in non-decreasing year_month order
C14_PanelSorted ==
    (MonthlyDone /\ calc.out.kind = "return" /\ ~IsEmpty(calc.out.table)) =>
        /\ {"year_month", "ipca", "selic", "cambio", "real_interest_rate"}
              \subseteq ColSet(calc.out.table)
        /\ NonDecreasing(YearMonths(calc.out.table))

\* the year_month values of the rows of one input table
InputMonths(df) == { strftime_ym(df.rows[i].date)[1] : i \in 1..Len(df.rows) }

\* the rows of an input table that fall in month k
InputCount(df, k) ==
    Cardinality({ i \in 1..Len(df.rows) : strftime_ym(df.rows[i].date) = << k >> })

PanelCount(df, k) ==
    Cardinality({ i \in 1..Len(df.rows) : df.rows[i].year_month = << k >> })

\* the panel's columns that come from the table of indicator k
ColumnsFrom(panel, k) ==
    ColSet(panel) \cap
        ( CASE k = IPCA -> {"ipca", "ipca_monthly_change", "ipca_annual_change"}
            [] k = SELIC -> {"selic", "selic_moving_avg"}
            [] OTHER -> {"cambio", "cambio_monthly_change", "cambio_volatility"} )

\* the function returned a panel built from three tables
MonthlyPanel == MonthlyDone /\ MonthlyInputsPresent(calc.args) /\ calc.out.kind = "return"

\* the months of the panel are the union of the inputs' months, and a month
\* that an input lacks has null cells in that input's columns
OuterJoin(indicators, panel) ==
    /\ SeqToSet(YearMonths(panel))
          = UNION { InputMonths(indicators[k]) : k \in {IPCA, SELIC, CAMBIO} }
    /\ \A i \in 1..Len(panel.rows), k \in {IPCA, SELIC, CAMBIO} :
          panel.rows[i].year_month[1] \notin InputMonths(indicators[k]) =>
              \A c \in ColumnsFrom(panel, k) : panel.rows[i][c] = NULL

\* C15: the monthly panel is a full outer join of its inputs on year_month:
\* its months are the union of the inputs' months, a month present in only
\* some inputs appears with null cells for the others, and a month appears in
\* exactly one panel row.
C15_OneRowPerMonth ==
    MonthlyPanel =>
        /\ OuterJoin(calc.args, calc.out.table)
        /\ \A k \in SeqToSet(YearMonths(calc.out.table)) :
              PanelCount(calc.out.table, k) = 1

\* the ipca table has two rows of January, selic and cambio one each: the
\* panel has two January rows
C15_Witness ==
    /\ MonthlyPanel
    /\ InputCount(calc.args[IPCA], strftime_ym(<< January >>)[1]) = 2
    /\ InputCount(calc.args[SELIC], strftime_ym(<< January >>)[1]) = 1
    /\ InputCount(calc.args[CAMBIO], strftime_ym(<< January >>)[1]) = 1
    /\ PanelCount(calc.out.table, strftime_ym(<< January >>)[1]) = 2

\* what the code gives: the outer join, with as many rows for a month as
\* there are pairings of the inputs' rows of that month
C15_OuterJoinRows ==
    MonthlyPanel =>
        /\ OuterJoin(calc.args, calc.out.table)
        /\ \A k \in SeqToSet(YearMonths(calc.out.table)) :
              LET n(x) == IF InputCount(calc.args[x], k) = 0 THEN 1
                          ELSE InputCount(calc.args[x], k)
              IN PanelCount(calc.out.table, k) = n(IPCA) * n(SELIC) * n(CAMBIO)

\* 0 <= q <= 100 for a fraction q
InZeroToHundred(q) == q.n >= 0 /\ q.n <= 100 * q.d

\* the non-null cells of the panel's economic_pressure_index column
IndexValues(df) ==
    { df.rows[i].economic_pressure_index[1] :
        i \in { j \in 1..Len(df.rows) : df.rows[j].economic_pressure_index # NULL } }

HasIndex == MonthlyPanel /\ "economic_pressure_index" \in ColSet(calc.out.table)

\* the panel has the three columns of the weighted sum
WeightedPath(df) ==
    {"ipca_annual_change", "selic", "cambio_volatility"} \subseteq ColSet(df)

\* C16: whenever the panel carries economic_pressure_index, every non-null
\* value of it lies in [0, 100], for every panel size (a single month and
\* all-equal raw values included), on the weighted path and on the two-term
\* fallback path.
C16_IndexInRange ==
    HasIndex => \A q \in IndexValues(calc.out.table) : InZeroToHundred(q)

\* a one-row panel on the weighted path whose index is the raw weighted sum,
\* below zero
C16_Witness ==
    /\ HasIndex
    /\ WeightedPath(calc.out.table)
    /\ Len(calc.out.table.rows) = 1
    /\ \E q \in IndexValues(calc.out.table) : q.n < 0

\* what the code gives: on the weighted path, when two rows differ in their
\* weighted sum, every value lies in [0, 100] and both ends are attained;
\* otherwise the values are the raw sums
C16_RescaledInRange ==
    (HasIndex /\ WeightedPath(calc.out.table)) =>
        LET vals == IndexValues(calc.out.table)
        IN \/ /\ \A q \in vals : InZeroToHundred(q)
              /\ \E q \in vals : q.n = 0
              /\ \E q \in vals : q.n = 100 * q.d
           \/ \A q \in vals : q.d = 1000 /\ \A p \in vals : p = q

\* on the fallback path the index is selic + ipca as it stands
C16_FallbackRaw ==
    (HasIndex /\ ~WeightedPath(calc.out.table)) =>
        \A i \in 1..Len(calc.out.table.rows) :
            LET r == calc.out.table.rows[i]
            IN r.economic_pressure_index # NULL =>
                  r.economic_pressure_index[1] = Rat(r.selic[1] + r.ipca[1], 100)

(***************************************************************************)
(* EconomicIndicatorsGoldTransformer.create_macro_dashboard. A value cell  *)
(* is a whole number of hundredths; ratios, the composite index and the    *)
(* score are fractions in lowest terms.                                    *)
(***************************************************************************)
RECURSIVE GCD(_, _)
GCD(a, b) == IF b = 0 THEN a ELSE GCD(b, a % b)

Abs(x) == IF x < 0 THEN -x ELSE x

\* n / d in lowest terms, d > 0
Reduce(n, d) ==
    LET g == GCD(Abs(n), d) IN Rat(n \div g, d \div g)

RatAdd(p, q) == Reduce(p.n * q.d + q.n * p.d, p.d * q.d)

RatMul(p, q) == Reduce(p.n * q.n, p.d * q.d)

\* df.sort_values('date'): rows by date, rows of one date in the order they had
RECURSIVE InsertByDate(_, _)
InsertByDate(r, rows) ==
    IF rows = <<>> THEN << r >>
    ELSE IF ~DateLess(Head(rows).date[1], r.date[1]) THEN << r >> \o rows
    ELSE << Head(rows) >> \o InsertByDate(r, Tail(rows))

RECURSIVE SortByDate(_)
SortByDate(rows) ==
    IF rows = <<>> THEN <<>>
    ELSE InsertByDate(Head(rows), SortByDate(Tail(rows)))

\* required = ['ipca', 'selic', 'pib', 'cambio', 'desemprego']
required == << IPCA, SELIC, PIB, CAMBIO, DESEMPREGO >>

\* [ind for ind in required if ind in indicators and indicators[ind] is not None]
available(indicators) ==
    SelectSeq(required, LAMBDA ind :
        ind \in DOMAIN indicators /\ ~indicators[ind].isNone)

\* the fewest available indicators for which a dashboard is built
MinAvailable == 2

\* the fewest observations for which a trend is given
TrendWindow == 3

\* a trend that compares the latest value with the one just before it
trend_vs_previous(rows) ==
    IF Len(rows) >= TrendWindow
    THEN LET first == rows[Len(rows) - 1].value
             last == rows[Len(rows)].value
         IN IF first = NULL \/ last = NULL THEN << "stable" >>
            ELSE IF last[1] > first[1] THEN << "rising" >>
            ELSE IF last[1] < first[1] THEN << "falling" >>
            ELSE << "stable" >>
    ELSE NULL

\* last_values = df.iloc[-3:]['value'].values, on the rows sorted by date;
\* last_values[2] against last_values[0]; a NaN compares false both ways
trend(rows) ==
    IF Len(rows) >= TrendWindow
    THEN LET first == rows[Len(rows) - TrendWindow + 1].value
             last == rows[Len(rows)].value
         IN IF first = NULL \/ last = NULL THEN << "stable" >>
            ELSE IF last[1] > first[1] THEN << "rising" >>
            ELSE IF last[1] < first[1] THEN << "falling" >>
            ELSE << "stable" >>
    ELSE NULL

\* latest.get(col, default) as a cell
Get(row, col, default) == IF col \in DOMAIN row THEN row[col] ELSE default

Letters ==
    << "a", "b", "c", "d", "e", "f", "g", "h", "i", "j", "k", "l", "m",
       "n", "o", "p", "q", "r", "s", "t", "u", "v", "w", "x", "y", "z" >>
Capitals ==
    << "A", "B", "C", "D", "E", "F", "G", "H", "I", "J", "K", "L", "M",
       "N", "O", "P", "Q", "R", "S", "T", "U", "V", "W", "X", "Y", "Z" >>

\* str.upper()
upper(s) ==
    [i \in 1..Len(s) |->
        IF \E j \in 1..Len(Letters) : Letters[j] = s[i]
        THEN Capitals[CHOOSE j \in 1..Len(Letters) : Letters[j] = s[i]]
        ELSE s[i]]

\* the column that holds an indicator's annual change, if it has one
annual_changes ==
    IPCA :> "year_over_year_pct" @@ PIB :> "annual_change_pct"
        @@ DESEMPREGO :> "annual_change_pp"

\* rows a cambio table needs for its annual change: more than 12
CambioYearRows == 12

\* (latest value / value 12 rows earlier - 1) * 100, when that value is > 0
cambio_annual_change(rows) ==
    LET latest == rows[Len(rows)]
        before == rows[Len(rows) - CambioYearRows]
        v(r) == IF "value" \in DOMAIN r /\ r.value # NULL THEN r.value[1] ELSE 0
    IN IF v(before) > 0
       THEN IF "value" \in DOMAIN latest /\ latest.value = NULL THEN NULL
            ELSE << Reduce((v(latest) - v(before)) * 100, v(before)) >>
       ELSE NULL

annual_change(ind, df, rows) ==
    IF ind \in DOMAIN annual_changes /\ annual_changes[ind] \in ColSet(df)
    THEN rows[Len(rows)][annual_changes[ind]]
    ELSE IF ind = CAMBIO /\ Len(rows) > CambioYearRows
    THEN cambio_annual_change(rows)
    ELSE NULL

\* the dashboard row of one available indicator, from its rows sorted by date
indicator_row(ind, df) ==
    LET rows == SortByDate(df.rows)
        latest == rows[Len(rows)]
    IN [indicator |-> << ind >>,
        indicator_name |-> Get(latest, "indicator_name", << upper(ind) >>),
        last_value |-> Get(latest, "value", NULL),
        last_date |-> Get(latest, "date", NULL),
        unit |-> Get(latest, "unit", << "%" >>),
        annual_change |-> annual_change(ind, df, rows),
        trend |-> trend(rows)]

\* the weights 0.35, 0.3 and 0.35 of the health index, in hundredths
IpcaHealthWeight == 35
SelicHealthWeight == 30
DesempregoHealthWeight == 35

health_weight == 
    IPCA :> IpcaHealthWeight @@ SELIC :> SelicHealthWeight
        @@ DESEMPREGO :> DesempregoHealthWeight

HealthIndicators == << IPCA, SELIC, DESEMPREGO >>

\* the health indicators among the available ones
has(avail) == SelectSeq(HealthIndicators, LAMBDA ind : ind \in SeqToSet(avail))

\* a test that counts every available indicator, whichever it is
AnyTwoAvailable(avail) == Len(avail) >= 2

\* (has_ipca and has_selic) or (has_ipca and has_desemprego)
\*     or (has_selic and has_desemprego)
HealthEligible(avail) ==
    \/ IPCA \in SeqToSet(avail) /\ SELIC \in SeqToSet(avail)
    \/ IPCA \in SeqToSet(avail) /\ DESEMPREGO \in SeqToSet(avail)
    \/ SELIC \in SeqToSet(avail) /\ DESEMPREGO \in SeqToSet(avail)

RECURSIVE SumSeq(_)
SumSeq(s) == IF s = <<>> THEN 0 ELSE Head(s) + SumSeq(Tail(s))

\* the non-null cells of the value column, in row order
ValuesOf(df) ==
    LET cells == SelectSeq([i \in 1..Len(df.rows) |-> df.rows[i].value],
                           LAMBDA c : c # NULL)
    IN [i \in 1..Len(cells) |-> cells[i][1]]

\* values[x] / avg if avg > 0 else 1: the last row as stored (iloc[-1], the
\* table is not sorted here) over the mean of the non-null values; a null
\* last value gives a null ratio, a mean that is null or not positive gives 1
norm(df) ==
    LET vals == ValuesOf(df)
        last == df.rows[Len(df.rows)].value
    IN IF vals # <<>> /\ SumSeq(vals) > 0
       THEN IF last = NULL THEN NULL
            ELSE << Reduce(last[1] * Len(vals), SumSeq(vals)) >>
       ELSE << Rat(1, 1) >>

\* weight_sum = sum(weights.values())
weight_sum(inds) == SumSeq([i \in 1..Len(inds) |-> health_weight[inds[i]]])

\* weights = {k: v / weight_sum for k, v in weights.items()}
normalized_weights(inds) ==
    [ind \in SeqToSet(inds) |-> Reduce(health_weight[ind], weight_sum(inds))]

\* econ_index += weights[ind] * values[f'{ind}_norm']; null once a term is null
RECURSIVE econ_index(_, _, _)
econ_index(indicators, weights, inds) ==
    IF inds = <<>> THEN << Rat(0, 1) >>
    ELSE LET rest == econ_index(indicators, weights, Tail(inds))
             n == norm(indicators[Head(inds)])
         IN IF rest = NULL \/ n = NULL THEN NULL
            ELSE << RatAdd(rest[1], RatMul(weights[Head(inds)], n[1])) >>

\* the scale of the score: 50 is the historical mean, 0 and 100 the ends
ScoreAtMean == 50
ScoreFloor == 0
ScoreCeiling == 100

\* min(max(50 * econ_index, 0), 100); a NaN passes through max and min
econ_score(index) ==
    IF index = NULL THEN NULL
    ELSE LET raw == RatMul(Rat(ScoreAtMean, 1), index[1])
         IN IF raw.n < ScoreFloor * raw.d THEN << Rat(ScoreFloor, 1) >>
            ELSE IF raw.n > ScoreCeiling * raw.d THEN << Rat(ScoreCeiling, 1) >>
            ELSE << raw >>

\* the upper ends of the buckets excelente, boa, estavel and desafiadora
ExcelenteBelow == 35
BoaBelow == 45
EstavelBelow == 55
DesafiadoraBelow == 70

\* the bucket of a score; every comparison with a NaN is false
situation(score) ==
    IF score = NULL THEN "critica"
    ELSE IF score[1].n < ExcelenteBelow * score[1].d THEN "excelente"
    ELSE IF score[1].n < BoaBelow * score[1].d THEN "boa"
    ELSE IF score[1].n < EstavelBelow * score[1].d THEN "estavel"
    ELSE IF score[1].n < DesafiadoraBelow * score[1].d THEN "desafiadora"
    ELSE "critica"

\* round(x, 1) of a score x >= 0, as a number of tenths: to the nearest
\* tenth, a tie to the even one
round1(score) ==
    IF score = NULL THEN NULL
    ELSE LET q == (10 * score[1].n) \div score[1].d
             r == (10 * score[1].n) % score[1].d
         IN IF 2 * r < score[1].d THEN << Rat(q, 10) >>
            ELSE IF 2 * r > score[1].d THEN << Rat(q + 1, 10) >>
            ELSE IF q % 2 = 0 THEN << Rat(q, 10) >>
            ELSE << Rat(q + 1, 10) >>

ECONOMIC_HEALTH ==
    << "e", "c", "o", "n", "o", "m", "i", "c", "_", "h", "e", "a", "l", "t", "h" >>

\* the first day of the model's clock, datetime.now().date()
Today == Date(2024, 1, 1)

\* summary_row
summary_row(indicators, avail) ==
    LET inds == has(avail)
        score == econ_score(econ_index(indicators, normalized_weights(inds), inds))
    IN [indicator |-> << ECONOMIC_HEALTH >>,
        indicator_name |-> << "Indice de Saude Economica" >>,
        last_value |-> round1(score),
        last_date |-> << Today >>,
        unit |-> << "pontos" >>,
        annual_change |-> NULL,
        trend |-> NULL,
        situation |-> << situation(score) >>]

DashboardCols ==
    << "indicator", "indicator_name", "last_value", "last_date", "unit",
       "annual_change", "trend", "updated_at" >>

\* pd.concat([dashboard, new_row]): the rows so far get a null cell in every
\* column that only the new row has
concat(df, row) ==
    LET new == SelectSeq(<< "situation" >>,
                         LAMBDA c : c \in DOMAIN row /\ c \notin ColSet(df))
        old == ColSet(df) \ DOMAIN row
    IN Table(df.cols \o new,
             [i \in 1..Len(df.rows) |-> df.rows[i] @@ NullRow(SeqToSet(new))]
                \o << row @@ NullRow(old) >>)

\* the loop over the available indicators
indicator_rows(indicators, avail) ==
    [i \in 1..Len(avail) |->
        indicator_row(avail[i], indicators[avail[i]]) @@ NullRow({"updated_at"})]

\* the summary row is added when the test passes and every table used has a
\* value column; the KeyError for a missing one is caught and the row left out
with_health(indicators, avail, dashboard) ==
    IF /\ HealthEligible(avail)
       /\ \A ind \in SeqToSet(has(avail)) : "value" \in ColSet(indicators[ind])
    THEN concat(dashboard, summary_row(indicators, avail))
    ELSE dashboard

create_macro_dashboard(indicators, now) ==
    LET avail == available(indicators)
    IN IF Len(avail) < MinAvailable THEN Returned(EmptyFrame)
       ELSE IF \E ind \in SeqToSet(avail) :
                  \/ "date" \notin ColSet(indicators[ind])
                  \/ indicators[ind].rows = <<>>
       THEN Raised
       ELSE LET dashboard ==
                    with_health(indicators, avail,
                        Table(DashboardCols, indicator_rows(indicators, avail)))
            IN Returned(assign(dashboard, "updated_at",
                               [i \in 1..Len(dashboard.rows) |-> << now >>]))

(***************************************************************************)
(* create_macro_dashboard applied to a dict of silver tables.              *)
(***************************************************************************)
\* observations in the table whose trend is looked at
MaxObs == 4

\* the first day of the i-th quarter from 2023 on
Quarter(i) == Date(2023 + ((i - 1) \div 4), 3 * ((i - 1) % 4) + 1, 1)

\* unemployment rates of two levels, and a value that did not parse
TrendValues == { << 79 >>, << 88 >>, NULL }

\* a table of k observations, one per quarter, stored in the order p with
\* the values v
TrendTable(k, p, v) ==
    Table(DateValue,
          [i \in 1..k |-> [date |-> << Quarter(p[i]) >>, value |-> v[i]]])

Series(dates, values) ==
    Table(DateValue,
          [i \in 1..Len(dates) |-> [date |-> << dates[i] >>, value |-> values[i]]])

OneSelic == Series(<< January >>, << << 1175 >> >>)

\* ipca tables: a last value well below the mean; the same rows stored latest
\* first; a mean close to zero; a last value that did not parse; a negative
\* mean; a negative last value; and one row
HealthIpca ==
    { Series(<< December, January >>, << << 53 >>, << 15 >> >>),
      Series(<< January, December >>, << << 15 >>, << 53 >> >>),
      Series(<< December, January >>, << << -50 >>, << 53 >> >>),
      Series(<< December, January >>, << << 53 >>, NULL >>),
      Series(<< December >>, << << -38 >> >>),
      Series(<< December, January >>, << << 53 >>, << -38 >> >>),
      Series(<< January >>, << << 53 >> >>) }

HealthSelic ==
    { OneSelic, Series(<< December, January >>, << << 1375 >>, << 1175 >> >>) }

HealthDesemprego ==
    { Series(<< Quarter(1) >>, << << 79 >> >>),
      Series(<< Quarter(1), Quarter(2), Quarter(3) >>,
             << << 88 >>, << 83 >>, << 79 >> >>) }

HealthPib == { Series(<< Quarter(1) >>, << << 2500 >> >>) }

HealthCambio == { Series(<< January >>, << << 495 >> >>) }

\* a key that is absent or holds a table
Maybe(tables) ==
    { [present |-> FALSE, df |-> None] }
    \cup { [present |-> TRUE, df |-> t] : t \in tables }

HealthInputs ==
    { Dict(IPCA :> i @@ SELIC :> s @@ DESEMPREGO :> d @@ PIB :> p @@ CAMBIO :> c) :
        i \in Choices(HealthIpca), s \in Choices(HealthSelic),
        d \in Choices(HealthDesemprego), p \in Maybe(HealthPib),
        c \in Maybe(HealthCambio) }

\* create_macro_dashboard(indicators) is about to be called
MacroCall(indicators) ==
    [fn |-> "macro", done |-> FALSE, args |-> indicators,
     out |-> NoOutput, weights |-> EmptyMap]

InitMacro ==
    /\ \/ \E k \in 0..MaxObs :
             \E p \in Perms(1..k), v \in [1..k -> TrendValues] :
                calc = MacroCall(DESEMPREGO :> TrendTable(k, p, v) @@ SELIC :> OneSelic)
       \/ \E indicators \in HealthInputs : calc = MacroCall(indicators)
    /\ store = EmptyMap
    /\ clock = 0
    /\ pc = "unused"
    /\ loc = Loc0
    /\ results = EmptyMap
    /\ ghost = Ghost0
    /\ eh = EHIdle

\* the call, and the weights it worked with when it added the summary row
CreateMacro ==
    /\ calc.fn = "macro"
    /\ ~calc.done
    /\ LET avail == available(calc.args)
       IN calc' = [calc EXCEPT
                    !.done = TRUE,
                    !.out = create_macro_dashboard(calc.args, clock),
                    !.weights = IF Len(avail) >= MinAvailable /\ HealthEligible(avail)
                                THEN normalized_weights(has(avail))
                                ELSE EmptyMap]
    /\ UNCHANGED <<store, clock, pc, loc, results, ghost, eh>>

NextMacro == CreateMacro

SpecMacro == InitMacro /\ [][NextMacro]_vars

(***************************************************************************)
(* Properties of create_macro_dashboard.                                   *)
(***************************************************************************)
\* the call returned a dashboard
MacroReturned == calc.fn = "macro" /\ calc.done /\ calc.out.kind = "return"

\* the rows of the dashboard for one indicator
RowsOf(df, ind) ==
    SelectSeq(df.rows, LAMBDA r : r.indicator = << ind >>)

\* the health indicators that hold a table in the dict
HealthAvailable(indicators) ==
    { k \in {IPCA, SELIC, DESEMPREGO} : Holds(indicators, k) }

\* every value of the table equals its last one, so last value / mean is 1
AtItsMean(df) ==
    \A i \in 1..Len(df.rows) :
        df.rows[i].value # NULL /\ df.rows[i].value = df.rows[Len(df.rows)].value

\* C17: the macro dashboard contains the economic_health row exactly when at
\* least two of ipca, selic, desemprego are available; with exactly two, the
\* weights of the two present indicators are divided by their sum (so two
\* indicators at their means score 50).
C17_HealthRow ==
    MacroReturned =>
        LET present == HealthAvailable(calc.args)
            rows == RowsOf(calc.out.table, ECONOMIC_HEALTH)
        IN /\ Len(rows) = (IF Cardinality(present) >= 2 THEN 1 ELSE 0)
           /\ Cardinality(present) = 2 =>
                /\ DOMAIN calc.weights = present
                /\ \A x \in present :
                      LET y == CHOOSE z \in present : z # x
                      IN calc.weights[x].n * (health_weight[x] + health_weight[y])
                            = health_weight[x] * calc.weights[x].d
                /\ (\A x \in present : AtItsMean(calc.args[x]) /\ calc.args[x].rows[1].value[1] > 0) =>
                      rows[1].last_value = << Rat(500, 10) >>

\* ipca and desemprego alone, each at its mean: a summary row of 50.0
C17_Witness ==
    /\ MacroReturned
    /\ HealthAvailable(calc.args) = {IPCA, DESEMPREGO}
    /\ Len(RowsOf(calc.out.table, ECONOMIC_HEALTH)) = 1
    /\ RowsOf(calc.out.table, ECONOMIC_HEALTH)[1].last_value = << Rat(500, 10) >>

\* ipca with pib and cambio: a dashboard without the summary row
C17_WitnessNoRow ==
    /\ MacroReturned
    /\ DOMAIN calc.args = {IPCA, PIB, CAMBIO}
    /\ Len(calc.out.table.rows) = 3
    /\ RowsOf(calc.out.table, ECONOMIC_HEALTH) = <<>>

\* the summary rows of the dashboard the call returned
HealthRows == RowsOf(calc.out.table, ECONOMIC_HEALTH)

\* C18: in every economic_health row the reported score (last_value) lies in
\* [0, 100] and the situation label is the bucket of that score: below 35
\* excelente, below 45 boa, below 55 estavel, below 70 desafiadora, otherwise
\* critica.
C18_LabelOfReportedScore ==
    MacroReturned =>
        \A i \in 1..Len(HealthRows) :
            LET r == HealthRows[i]
            IN /\ r.last_value # NULL
               /\ InZeroToHundred(r.last_value[1])
               /\ r.situation = << situation(r.last_value) >>

\* a score of 34.95... is reported as 35.0 and labelled excelente
C18_Witness ==
    /\ MacroReturned
    /\ Len(HealthRows) = 1
    /\ HealthRows[1].last_value = << Rat(350, 10) >>
    /\ HealthRows[1].situation = << "excelente" >>

\* a last value that did not parse: a null score labelled critica
C18_WitnessNull ==
    /\ MacroReturned
    /\ Len(HealthRows) = 1
    /\ HealthRows[1].last_value = NULL
    /\ HealthRows[1].situation = << "critica" >>

\* what the code gives: a reported score, when there is one, lies in
\* [0, 100] and is labelled with its own bucket or, when rounding brought it
\* up to the lower end of a bucket, with the bucket below
C18_LabelNearScore ==
    MacroReturned =>
        \A i \in 1..Len(HealthRows) :
            LET r == HealthRows[i]
                below == << Rat(r.last_value[1].n - 1, 10) >>
            IN r.last_value # NULL =>
                  /\ InZeroToHundred(r.last_value[1])
                  /\ \/ r.situation = << situation(r.last_value) >>
                     \/ /\ r.last_value[1].n \in
                              { 10 * ExcelenteBelow, 10 * BoaBelow,
                                10 * EstavelBelow, 10 * DesafiadoraBelow }
                        /\ r.situation = << situation(below) >>

\* both ends of the scale are reached by clamping
C18_WitnessClamped ==
    /\ MacroReturned
    /\ Len(HealthRows) = 1
    /\ HealthRows[1].last_value \in { << Rat(0, 10) >>, << Rat(1000, 10) >> }

\* how many observations of the table are dated after row i
LaterThan(df, i) ==
    Cardinality({ j \in 1..Len(df.rows) : DateLess(df.rows[i].date[1], df.rows[j].date[1]) })

\* the value of the observation that has exactly k later ones
ValueBack(df, k) ==
    df.rows[CHOOSE i \in 1..Len(df.rows) : LaterThan(df, i) = k].value

\* C19: for each indicator in the macro dashboard, with its observations
\* ordered by date, the trend is null when there are fewer than three
\* observations; otherwise it is rising if the latest value is greater than
\* the value two observations earlier, falling if it is smaller, and stable
\* if they are equal (8.8, 8.3, 7.9 gives falling).
C19_Trend ==
    (MacroReturned /\ ~IsEmpty(calc.out.table)) =>
        \A ind \in SeqToSet(available(calc.args)) :
            LET df == calc.args[ind]
                rows == RowsOf(calc.out.table, ind)
                latest == ValueBack(df, 0)
                earlier == ValueBack(df, 2)
            IN /\ Len(rows) = 1
               /\ Len(df.rows) < 3 => rows[1].trend = NULL
               /\ (Len(df.rows) >= 3 /\ latest # NULL /\ earlier # NULL) =>
                    /\ latest[1] > earlier[1] => rows[1].trend = << "rising" >>
                    /\ latest[1] < earlier[1] => rows[1].trend = << "falling" >>
                    /\ latest[1] = earlier[1] => rows[1].trend = << "stable" >>

\* 8.8, 8.3, 7.9: falling
C19_Witness ==
    /\ MacroReturned
    /\ DESEMPREGO \in DOMAIN calc.args
    /\ calc.args[DESEMPREGO] =
          Series(<< Quarter(1), Quarter(2), Quarter(3) >>,
                 << << 88 >>, << 83 >>, << 79 >> >>)
    /\ Len(RowsOf(calc.out.table, DESEMPREGO)) = 1
    /\ RowsOf(calc.out.table, DESEMPREGO)[1].trend = << "falling" >>

\* four observations stored out of date order, the latest above the one two
\* before it and below the one just before it: rising
C19_WitnessUnsorted ==
    /\ MacroReturned
    /\ DESEMPREGO \in DOMAIN calc.args
    /\ Len(calc.args[DESEMPREGO].rows) = 4
    /\ calc.args[DESEMPREGO].rows[1].date = << Quarter(4) >>
    /\ ValueBack(calc.args[DESEMPREGO], 0) = << 88 >>
    /\ ValueBack(calc.args[DESEMPREGO], 2) = << 79 >>
    /\ ValueBack(calc.args[DESEMPREGO], 3) = << 88 >>
    /\ Len(RowsOf(calc.out.table, DESEMPREGO)) = 1
    /\ RowsOf(calc.out.table, DESEMPREGO)[1].trend = << "rising" >>

\* a value that did not parse among the two compared: stable
C19_WitnessNull ==
    /\ MacroReturned
    /\ DESEMPREGO \in DOMAIN calc.args
    /\ Len(calc.args[DESEMPREGO].rows) = 3
    /\ ValueBack(calc.args[DESEMPREGO], 0) = NULL
    /\ Len(RowsOf(calc.out.table, DESEMPREGO)) = 1
    /\ RowsOf(calc.out.table, DESEMPREGO)[1].trend = << "stable" >>

(***************************************************************************)
(* The transformers of EconomicIndicatorTransformer (bronze -> silver).    *)
(* A raw cell is a number of hundredths, a Timestamp, null, or text that   *)
(* parses as neither. The tables below carry the columns the transformer   *)
(* bodies build themselves, the 'diff' variations and the moving averages; *)
(* the percentage-change variations, year_to_date_pct and the columns of   *)
(* calculate_financial_metrics, each computed inside a try/except that     *)
(* only logs, are not carried: none decides whether a table comes back, or *)
(* which rows and values it has.                                          *)
(***************************************************************************)
\* a cell of text that is neither a number nor a date
Text == << "n", "a" >>

\* text that reads as a number of hundredths, text that reads as a date
NumeralText == << "4", ".", "5", "0" >>
DateText == << "2", "0", "2", "4", "-", "0", "1", "-", "1", "5" >>

IsDigit(c) == c \in { Digits[i] : i \in 1..Len(Digits) }

digit(c) == (CHOOSE i \in 1..Len(Digits) : Digits[i] = c) - 1

\* a conversion that reads text only: a number is not text and becomes a null
numeric_of_text(cell) ==
    IF cell = NULL \/ Len(cell) = 1 THEN NULL
    ELSE IF /\ Len(cell) = 4
            /\ cell[2] = "."
            /\ \A i \in {1, 3, 4} : IsDigit(cell[i])
    THEN << 100 * digit(cell[1]) + 10 * digit(cell[3]) + digit(cell[4]) >>
    ELSE NULL

\* pd.to_numeric(..., errors='coerce') of one cell: a number stays, text of
\* the form d.dd becomes the number, any other text a null
to_numeric(cell) ==
    IF cell = NULL \/ Len(cell) = 1 THEN cell
    ELSE IF /\ Len(cell) = 4
            /\ cell[2] = "."
            /\ \A i \in {1, 3, 4} : IsDigit(cell[i])
    THEN << 100 * digit(cell[1]) + 10 * digit(cell[3]) + digit(cell[4]) >>
    ELSE NULL

\* pd.to_datetime(..., errors='coerce') of one cell: a Timestamp stays, text
\* of the form YYYY-MM-DD that names a day becomes the Timestamp, any other
\* text a null
to_datetime(cell) ==
    IF cell = NULL \/ Len(cell) = 1 THEN cell
    ELSE IF /\ Len(cell) = 10
            /\ cell[5] = "-" /\ cell[8] = "-"
            /\ \A i \in {1, 2, 3, 4, 6, 7, 9, 10} : IsDigit(cell[i])
    THEN LET y == 1000 * digit(cell[1]) + 100 * digit(cell[2])
                    + 10 * digit(cell[3]) + digit(cell[4])
             mo == 10 * digit(cell[6]) + digit(cell[7])
             d == 10 * digit(cell[9]) + digit(cell[10])
         IN IF mo \in 1..12 /\ d \in 1..31 THEN << Date(y, mo, d) >> ELSE NULL
    ELSE NULL

\* exclude_cols = ['date', 'data']
exclude_cols == {"date", "data"}

\* value_cols = [col for col in df.columns if col not in exclude_cols]
value_cols(df) == SelectSeq(df.cols, LAMBDA c : c \notin exclude_cols)

\* identify_value_column, where it does not raise ValueError
identify_value_column(df) == value_cols(df)[1]

\* safe_rename_columns: only the keys that are columns are renamed
safe_rename_columns(df, rename_dict) ==
    rename(df, [k \in DOMAIN rename_dict \cap ColSet(df) |-> rename_dict[k]])

\* df[col] = f(df[col]), cell by cell
map_column(df, col, f(_)) ==
    assign(df, col, [i \in 1..Len(df.rows) |-> f(df.rows[i][col])])

\* standardize_date_column: without a date or data column the table is
\* returned as it came, after an error has been logged
standardize_date_column(df) ==
    IF "date" \in ColSet(df) THEN map_column(df, "date", to_datetime)
    ELSE IF "data" \in ColSet(df)
    THEN map_column(rename(df, [k \in {"data"} |-> "date"]), "date", to_datetime)
    ELSE df

\* ensure_numeric(df, columns)
ensure_numeric(df, columns) ==
    IF columns \cap ColSet(df) = {} THEN df
    ELSE LET col == CHOOSE c \in columns \cap ColSet(df) : TRUE
         IN map_column(df, col, to_numeric)

\* the four cleaning statements every transformer starts with
cleaned(df) ==
    ensure_numeric(
        standardize_date_column(
            safe_rename_columns(df, [k \in {"data", identify_value_column(df)} |->
                                        IF k = "data" THEN "date" ELSE "value"])),
        {"value"})

quarter(m) == ((m - 1) \div 3) + 1

\* str(Period('Q')) of one cell; NaT prints as 'NaT'
year_quarter(cell) ==
    IF cell = NULL THEN << << "N", "a", "T" >> >>
    ELSE << FourDigits(cell[1].y) \o << "Q", Digits[quarter(cell[1].m) + 1] >> >>

\* create_date_features: nothing is added when there is no date column
create_date_features(df) ==
    IF "date" \notin ColSet(df) THEN df
    ELSE LET n == Len(df.rows)
             d(i) == df.rows[i].date
             num(i, f(_)) == IF d(i) = NULL THEN NULL ELSE << f(d(i)[1]) >>
             y(t) == t.y
             mo(t) == t.m
             q(t) == quarter(t.m)
         IN assign(assign(assign(assign(assign(df,
                "year", [i \in 1..n |-> num(i, y)]),
                "month", [i \in 1..n |-> num(i, mo)]),
                "quarter", [i \in 1..n |-> num(i, q)]),
                "year_month", [i \in 1..n |-> strftime_ym(d(i))]),
                "year_quarter", [i \in 1..n |-> year_quarter(d(i))])

\* df.sort_values('date'): rows without a date go last
sort_by_date(df) ==
    Table(df.cols,
          SortByDate(SelectSeq(df.rows, LAMBDA r : r.date # NULL))
              \o SelectSeq(df.rows, LAMBDA r : r.date = NULL))

\* calculate_variations, as far as the rows go: returned as it came without
\* a value or a date column, sorted by date otherwise
variations_order(df) ==
    IF "value" \notin ColSet(df) \/ "date" \notin ColSet(df) THEN df
    ELSE sort_by_date(df)

\* datetime.now().strftime('%Y-%m-%d %H:%M:%S'), for a clock within the first hour
strftime_seconds(t) ==
    << "2", "0", "2", "4", "-", "0", "1", "-", "0", "1", " ", "0", "0", ":" >>
        \o TwoDigits((t \div 60) % 60) \o << ":" >> \o TwoDigits(t % 60)

\* df[col] = scalar
assign_scalar(df, col, v) == assign(df, col, [i \in 1..Len(df.rows) |-> << v >>])

\* the five metadata columns
with_metadata(df, indicator, indicator_name, unit, frequency, now) ==
    assign_scalar(assign_scalar(assign_scalar(assign_scalar(assign_scalar(df,
        "indicator", indicator),
        "indicator_name", indicator_name),
        "unit", unit),
        "frequency", frequency),
        "processed_at", strftime_seconds(now))

\* df.groupby('year_month'): the keys in order (null keys are left out) and
\* the rows of a key in the order they had
group_keys(df) ==
    LET keyed == SelectSeq(df.rows, LAMBDA r : r.year_month # NULL)
        firsts == SelectSeq([i \in 1..Len(keyed) |-> i],
                            LAMBDA i : \A j \in 1..(i - 1) :
                                          keyed[j].year_month # keyed[i].year_month)
    IN sorted([i \in 1..Len(firsts) |-> keyed[firsts[i]].year_month[1]])

group(df, ym) == SelectSeq(df.rows, LAMBDA r : r.year_month = << ym >>)

\* the non-null numbers of a column of a group, in row order
numbers(rows, col) ==
    LET cells == SelectSeq([i \in 1..Len(rows) |-> rows[i][col]],
                           LAMBDA c : c # NULL)
    IN [i \in 1..Len(cells) |-> cells[i][1]]

\* group['date'].max()
max_date(rows) ==
    LET ds == Range(numbers(rows, "date"))
    IN IF ds = {} THEN NULL
       ELSE << CHOOSE x \in ds : \A z \in ds : ~DateLess(x, z) >>

\* the last non-null value of a group instead of the mean of all of them
last_observation(rows) ==
    LET vs == numbers(rows, "value")
    IN IF vs = <<>> THEN NULL ELSE << Rat(vs[Len(vs)], 1) >>

\* group['value'].mean(): nulls skipped, null when nothing is left
mean(rows) ==
    LET vs == numbers(rows, "value")
    IN IF vs = <<>> THEN NULL ELSE << Reduce(SumSeq(vs), Len(vs)) >>

\* group['value'].max() / .min()
high(rows) ==
    LET vs == Range(numbers(rows, "value"))
    IN IF vs = {} THEN NULL ELSE << Maximum(vs) >>

low(rows) ==
    LET vs == Range(numbers(rows, "value"))
    IN IF vs = {} THEN NULL ELSE << Minimum(vs) >>

\* group['value'].std() squared (the sample variance, a fraction; the code
\* stores its square root): null with fewer than two numbers
variance(rows) ==
    LET vs == numbers(rows, "value")
        n == Len(vs)
        squares == [i \in 1..n |-> vs[i] * vs[i]]
    IN IF n < 2 THEN NULL
       ELSE << Reduce(n * SumSeq(squares) - SumSeq(vs) * SumSeq(vs), n * (n - 1)) >>

\* group['value'].std() if len(group) > 1 else 0
volatility(rows) == IF Len(rows) > 1 THEN variance(rows) ELSE << Rat(0, 1) >>

\* pd.DataFrame(monthly_data)
frame(cols, rows) == IF rows = <<>> THEN EmptyFrame ELSE Table(cols, rows)

\* the monthly rows of transform_selic
selic_monthly(df) ==
    LET keys == group_keys(df)
    IN frame(<< "date", "value", "year", "month" >>,
             [i \in 1..Len(keys) |->
                 LET g == group(df, keys[i])
                 IN [date |-> max_date(g), value |-> mean(g),
                     year |-> g[1].year, month |-> g[1].month]])

\* the monthly rows of transform_cambio
cambio_monthly(df) ==
    LET keys == group_keys(df)
    IN frame(<< "date", "open", "close", "high", "low", "avg", "volatility" >>,
             [i \in 1..Len(keys) |->
                 LET g == group(df, keys[i])
                 IN [date |-> max_date(g), open |-> g[1].value,
                     close |-> g[Len(g)].value, high |-> high(g), low |-> low(g),
                     avg |-> mean(g), volatility |-> volatility(g)]])

\* (high - low) / low * 100, of one row
amplitude(r) ==
    IF r.high = NULL \/ r.low = NULL THEN NULL
    ELSE IF r.low[1] = 0
    THEN (IF r.high[1] = 0 THEN NULL ELSE << "inf" >>)
    ELSE IF r.low[1] > 0
    THEN << Reduce((r.high[1] - r.low[1]) * 100, r.low[1]) >>
    ELSE << Reduce((r.low[1] - r.high[1]) * 100, 0 - r.low[1]) >>

\* df['value'].rolling(window=4)
AccumulationWindow == 4

\* df['value'].rolling(window).sum(): null until the window is full and
\* wherever the window holds a null
rolling_sum(df, window) ==
    [i \in 1..Len(df.rows) |->
        IF i < window \/ \E j \in (i - window + 1)..i : df.rows[j].value = NULL
        THEN NULL
        ELSE << SumSeq([j \in 1..window |-> df.rows[i - window + j].value[1]]) >>]

\* a dict literal: of entries with the same key the last one is the value
dict_literal(entries) ==
    [k \in { entries[i][1] : i \in DOMAIN entries } |->
        entries[Maximum({ i \in DOMAIN entries : entries[i][1] = k })][2]]

\* the cells of a column, in row order
column(df, col) == [i \in 1..Len(df.rows) |-> df.rows[i][col]]

\* a - b of two numbers of the same kind: whole numbers of hundredths, or
\* fractions (a monthly mean)
minus(a, b, fractions) ==
    IF fractions THEN Reduce(a.n * b.d - b.n * a.d, a.d * b.d) ELSE a - b

times(a, k, fractions) == IF fractions THEN Reduce(a.n * k, a.d) ELSE a * k

\* Series.diff(periods) * multiply: null for the first `periods` rows and
\* wherever one of the two values is null
diff(cells, periods, multiply, fractions) ==
    [i \in 1..Len(cells) |->
        IF i <= periods THEN NULL
        ELSE IF cells[i] = NULL \/ cells[i - periods] = NULL THEN NULL
        ELSE << times(minus(cells[i][1], cells[i - periods][1], fractions),
                      multiply, fractions) >>]

\* calculate_variations: the table as it came without a value or a date
\* column; otherwise sorted by date, with the column of the 'diff' entry
calculate_variations(df, variations, fractions) ==
    IF "value" \notin ColSet(df) \/ "date" \notin ColSet(df) THEN df
    ELSE LET ordered == variations_order(df)
         IN IF "diff" \notin DOMAIN variations THEN ordered
            ELSE assign(ordered, variations["diff"].column,
                        diff(column(ordered, "value"), variations["diff"].periods,
                             variations["diff"].multiply, fractions))

RECURSIVE RatSum(_)
RatSum(s) == IF s = <<>> THEN Rat(0, 1) ELSE RatAdd(Head(s), RatSum(Tail(s)))

\* the mean of a full window of numbers
window_mean(s, fractions) ==
    IF fractions THEN Reduce(RatSum(s).n, RatSum(s).d * Len(s))
    ELSE Reduce(SumSeq(s), Len(s))

\* Series.rolling(window).mean(): null until the window is full and wherever
\* the window holds a null
rolling_mean(cells, window, fractions) ==
    [i \in 1..Len(cells) |->
        IF i < window \/ \E j \in (i - window + 1)..i : cells[j] = NULL
        THEN NULL
        ELSE << window_mean([j \in 1..window |-> cells[i - window + j][1]],
                            fractions) >>]

\* calculate_moving_average(df, window=window, result_col=result_col)
calculate_moving_average(df, window, result_col, fractions) ==
    IF "value" \notin ColSet(df) THEN df
    ELSE assign(df, result_col, rolling_mean(column(df, "value"), window, fractions))

\* the variations dicts as the transformers write them
ipca_variations ==
    dict_literal(<<
        << "pct_change", [periods |-> 1, column |-> "monthly_change_pct",
                          multiply |-> 100] >>,
        << "year_over_year", [periods |-> 12, column |-> "year_over_year_pct",
                              multiply |-> 100] >> >>)

selic_variations ==
    dict_literal(<<
        << "diff", [periods |-> 1, column |-> "change_bps", multiply |-> 100] >> >>)

pib_variations ==
    dict_literal(<<
        << "pct_change", [periods |-> 1, column |-> "quarterly_change_pct",
                          multiply |-> 100] >>,
        << "year_over_year", [periods |-> 4, column |-> "annual_change_pct",
                              multiply |-> 100] >> >>)

desemprego_variations ==
    dict_literal(<<
        << "diff", [periods |-> 1, column |-> "quarterly_change_pp",
                    multiply |-> 1] >>,
        << "diff", [periods |-> 4, column |-> "annual_change_pp",
                    multiply |-> 1] >> >>)

\* the transformer got past identify_value_column
HasValueColumn(df) == value_cols(df) # <<>>

transform_ipca(df, now) ==
    IF ~HasValueColumn(df) THEN Raised
    ELSE Returned(
           DropIfPresent(
             with_metadata(
                 calculate_moving_average(
                     calculate_variations(create_date_features(cleaned(df)),
                                          ipca_variations, FALSE),
                     3, "moving_avg_3m", FALSE),
                           IPCA, "IPCA - Indice Nacional de Precos ao Consumidor Amplo",
                           "%", "monthly", now),
             "year"))

transform_selic(df, now) ==
    IF ~HasValueColumn(df) THEN Raised
    ELSE LET features == create_date_features(cleaned(df))
         IN IF "year_month" \notin ColSet(features) THEN Raised
            ELSE LET monthly_df ==
                         with_metadata(
                             assign_scalar(
                                 calculate_moving_average(
                                     calculate_variations(selic_monthly(features),
                                                          selic_variations, TRUE),
                                     3, "moving_avg_3m", TRUE),
                                 "real_interest_rate", 0),
                             SELIC, "Taxa SELIC", "%", "monthly", now)
                 IN Returned(IF "year" \in ColSet(monthly_df)
                             THEN drop(drop(monthly_df, "year"), "month")
                             ELSE monthly_df)

transform_pib(df, now) ==
    IF ~HasValueColumn(df) THEN Raised
    ELSE LET ordered == calculate_variations(cleaned(df), pib_variations, FALSE)
         IN Returned(
              with_metadata(
                  assign(ordered, "accumulated_value",
                         rolling_sum(ordered, AccumulationWindow)),
                  PIB, "Produto Interno Bruto", "R$ milhoes", "quarterly", now))

transform_cambio(df, now) ==
    IF ~HasValueColumn(df) THEN Raised
    ELSE LET features == create_date_features(cleaned(df))
         IN IF "year_month" \notin ColSet(features) THEN Raised
            ELSE LET monthly_df == cambio_monthly(features)
                 IN IF "close" \notin ColSet(monthly_df) THEN Raised
                    ELSE LET n == Len(monthly_df.rows)
                             valued ==
                                 assign(monthly_df, "value",
                                        [i \in 1..n |-> monthly_df.rows[i].close])
                         IN Returned(
                              with_metadata(
                                  assign(valued, "monthly_amplitude_pct",
                                         [i \in 1..n |-> amplitude(valued.rows[i])]),
                                  CAMBIO, "Taxa de Cambio (USD/BRL)", "BRL",
                                  "monthly", now))

transform_desemprego(df, now) ==
    IF ~HasValueColumn(df) THEN Raised
    ELSE Returned(
           with_metadata(
               calculate_moving_average(
                   calculate_variations(cleaned(df), desemprego_variations, FALSE),
                   3, "moving_avg_3q", FALSE),
                         DESEMPREGO, "Taxa de Desemprego", "%", "quarterly", now))

\* transformers[indicator](bronze_df)
transformers(indicator, df, now) ==
    IF indicator = IPCA THEN transform_ipca(df, now)
    ELSE IF indicator = SELIC THEN transform_selic(df, now)
    ELSE IF indicator = PIB THEN transform_pib(df, now)
    ELSE IF indicator = CAMBIO THEN transform_cambio(df, now)
    ELSE transform_desemprego(df, now)

(***************************************************************************)
(* process_indicator of EconomicIndicatorTransformer applied, for each of  *)
(* the five indicators, to one raw snapshot of each shape.                 *)
(***************************************************************************)
February == Date(2024, 2, 1)

\* the dates and values of a raw snapshot, in the order the rows are stored
RawDates == << MidJanuary, December, January, February >>
RawValues == << 460, 450, 455, 470 >>

\* n rows under the given names of the date and the value column
Raw(date_col, value_col, n) ==
    Table(<< date_col, value_col >>,
          [i \in 1..n |-> (date_col :> << RawDates[i] >>)
                             @@ (value_col :> << RawValues[i] >>)])

\* no date and no data column: a value and a series code
NoDateColumn ==
    Table(<< "valor", "codigo" >>,
          [i \in 1..2 |-> [valor |-> << RawValues[i] >>, codigo |-> << 433 >>]])

ValueOnly == Table(<< "value" >>, [i \in 1..2 |-> [value |-> << RawValues[i] >>]])

\* nothing but a date column
DateOnly == Table(<< "data" >>, [i \in 1..2 |-> [data |-> << RawDates[i] >>]])

\* a date column none of whose cells is a date
TextDates ==
    Table(<< "data", "valor" >>,
          [i \in 1..2 |-> [data |-> Text, valor |-> << RawValues[i] >>]])

\* a row without a date and a row whose value is text, among good rows
Gaps ==
    Table(<< "data", "valor" >>,
          << [data |-> << January >>, valor |-> << 455 >>],
             [data |-> NULL, valor |-> << 450 >>],
             [data |-> << MidJanuary >>, valor |-> Text],
             [data |-> << December >>, valor |-> NULL] >>)

\* six quarters of a quarterly rate, stored in another order than by date
QuarterlyValues == << 880, 830, 790, 800, 760, 740 >>
StoredOrder == << 2, 1, 3, 6, 4, 5 >>

Quarterly ==
    Table(<< "data", "valor" >>,
          [i \in 1..Len(StoredOrder) |->
              [data |-> << Quarter(StoredOrder[i]) >>,
               valor |-> << QuarterlyValues[StoredOrder[i]] >>]])

\* the days of a month of 2023
days_in_month(m) == IF m = 2 THEN 28 ELSE IF m \in {4, 6, 9, 11} THEN 30 ELSE 31

\* the days of 2023 before the first of a month
RECURSIVE days_before(_)
days_before(m) == IF m = 1 THEN 0 ELSE days_before(m - 1) + days_in_month(m - 1)

\* a day of 2023 as a number of days, and back
ordinal(t) == days_before(t.m) + t.d

from_ordinal(n) ==
    LET m == CHOOSE k \in 1..12 : days_before(k) < n /\ n <= days_before(k) + days_in_month(k)
    IN Date(2023, m, n - days_before(m))

\* pd.date_range(start=start, periods=periods, freq='D'), within 2023
date_range(start, periods) ==
    [i \in 1..periods |-> from_ordinal(ordinal(start) + i - 1)]

\* [13.75] * 30 + [13.25] * 30
HighRate == 1375
LowRate == 1325
DaysPerRate == 30

\* the daily policy rate: DaysPerRate days at HighRate, then as many at
\* LowRate, from a first day on
DailyRates(start) ==
    LET dates == date_range(start, 2 * DaysPerRate)
    IN Table(<< "data", "selic" >>,
             [i \in 1..(2 * DaysPerRate) |->
                 [data |-> << dates[i] >>,
                  selic |-> << IF i <= DaysPerRate THEN HighRate ELSE LowRate >>]])

\* first days: 1 January (sixty days reach 1 March), 1 March (the rate
\* changes on 31 March), 1 June and 2 July (the rate changes with the month)
FirstDays == { Date(2023, 1, 1), Date(2023, 3, 1), Date(2023, 6, 1), Date(2023, 7, 2) }

RawTables ==
    { Raw("data", "valor", 4), Raw("date", "value", 4), Raw("data", "valor", 1),
      NoDateColumn, ValueOnly, DateOnly, TextDates, Gaps, Quarterly }

\* the raw snapshots of an indicator: the daily rate is selic's
RawTablesOf(indicator) ==
    IF indicator = SELIC
    THEN RawTables \cup { DailyRates(start) : start \in FirstDays }
    ELSE RawTables

InitFamilies ==
    /\ \E i \in 1..Len(FiveIndicators) : \E raw \in RawTablesOf(FiveIndicators[i]) :
          /\ store = (Bronze(FiveIndicators[i], 0) :> raw)
          /\ loc = [Loc0 EXCEPT !.kind = "b2s", !.mode = "single",
                                !.todo = << FiveIndicators[i] >>,
                                !.loaded = [k \in Range(FiveIndicators) |-> None]]
    /\ clock = 2
    /\ pc = "call"
    /\ results = EmptyMap
    /\ ghost = [Ghost0 EXCEPT !.before = store]
    /\ eh = EHIdle
    /\ calc = CalcIdle

\* silver_df = transform_func(bronze_df), and the check of what came back
B2SApplyTransformer ==
    /\ pc = "b2s_transform"
    /\ LET b == transformers(Indicator, loc.df, clock)
       IN /\ ghost' = [ghost EXCEPT !.cur.policy = Append(@, b)]
          /\ IF b.kind = "raise" THEN OnRaise("transform")
             ELSE IF NoneOrEmpty(b.table) THEN Return(FALSE)
             ELSE /\ pc' = "b2s_persist"
                  /\ loc' = [loc EXCEPT !.out = b.table]
    /\ UNCHANGED <<store, clock, results, eh, calc>>

NextFamilies ==
    \/ StartCall
    \/ B2SDiscover
    \/ B2SLoad
    \/ B2SApplyTransformer
    \/ B2SPersist
    \/ CallReturned

SpecFamilies == InitFamilies /\ [][NextFamilies]_vars

\* process_indicator has returned after loading a raw table
LoadedAndReturned ==
    /\ pc \in {"ret", "done"}
    /\ ghost.cur.read_ok
    /\ ~loc.df.isNone

NoDateNorData(df) == ColSet(df) \cap {"date", "data"} = {}

SilverObjects == MatchingIn(store, Path(SILVER, ECONOMIC_INDICATORS, Indicator))

\* C20: when the loaded raw table has neither a date nor a data column,
\* process_indicator returns False and the silver layer holds no object for
\* the indicator, whichever of the five indicators it is
C20_NoDateFails ==
    (LoadedAndReturned /\ NoDateNorData(loc.df))
        => /\ loc.ret = FALSE
           /\ SilverObjects = {}

\* ipca's raw table has a value and a series code and no date: the call
\* returned True and the silver object it wrote has no date column
C20_Witness ==
    /\ LoadedAndReturned
    /\ Indicator = IPCA
    /\ loc.df = NoDateColumn
    /\ loc.ret = TRUE
    /\ \E k \in SilverObjects :
          /\ "date" \notin ColSet(store[k])
          /\ "value" \in ColSet(store[k])
          /\ Len(store[k].rows) = Len(NoDateColumn.rows)

\* the indicators whose transformer groups by year_month
MonthlyAggregated == {SELIC, CAMBIO}

\* what the code does without a date column: the monthly aggregations fail
\* before anything is written; the other three transformers hand the table
\* on without a date column, it is written, and the call returns whether
\* the write went through
C20_NoDateOutcome ==
    (LoadedAndReturned /\ NoDateNorData(loc.df))
        => IF Indicator \in MonthlyAggregated
           THEN /\ loc.ret = FALSE
                /\ ghost.cur.writes = <<>>
                /\ ghost.cur.policy = << Raised >>
           ELSE /\ Len(ghost.cur.writes) = 1
                /\ "date" \notin ColSet(ghost.cur.writes[1].df)
                /\ Len(ghost.cur.writes[1].df.rows) = Len(loc.df.rows)
                /\ loc.ret = ghost.cur.writes[1].ok
                /\ (loc.ret <=> SilverObjects # {})

\* a raw table with a date column: whatever is written has a date column
C20_WithDateOutcome ==
    (LoadedAndReturned /\ ~NoDateNorData(loc.df))
        => /\ \A i \in 1..Len(ghost.cur.writes) :
                "date" \in ColSet(ghost.cur.writes[i].df)
           /\ (~HasValueColumn(loc.df) => loc.ret = FALSE /\ ghost.cur.writes = <<>>)

\* a raw table with dates and values went through, for a monthly aggregation
C20_WitnessMonthly ==
    /\ LoadedAndReturned
    /\ Indicator = CAMBIO
    /\ loc.df = Raw("data", "valor", 4)
    /\ loc.ret = TRUE
    /\ \E k \in SilverObjects : Len(store[k].rows) = 3

\* selic without a date column: the call returned False, nothing written
C20_WitnessSelic ==
    /\ LoadedAndReturned
    /\ Indicator = SELIC
    /\ loc.df = ValueOnly
    /\ loc.ret = FALSE
    /\ ghost.cur.policy = << Raised >>

(***************************************************************************)
(* C21: rows with a null date or a null value after the coercions.         *)
(***************************************************************************)
\* the rows of a table whose date or whose value is null
null_rows(df) ==
    SelectSeq(df.rows,
              LAMBDA r : \/ ("date" \in ColSet(df) /\ r.date = NULL)
                         \/ ("value" \in ColSet(df) /\ r.value = NULL))

\* C21: no table handed to the storage client for the silver layer has a
\* row whose date is null or whose value is null: rows that lose their date
\* or their value in the coercions are removed before the metrics and the
\* write
C21_NoNullRows ==
    \A i \in 1..Len(ghost.cur.writes) : null_rows(ghost.cur.writes[i].df) = <<>>

\* desemprego's raw table has a row without a date, a row with a text value
\* and a row without a value: the call returned True and the stored silver
\* object has all four rows, three of them with a null date or value
C21_Witness ==
    /\ LoadedAndReturned
    /\ Indicator = DESEMPREGO
    /\ loc.df = Gaps
    /\ loc.ret = TRUE
    /\ \E k \in SilverObjects :
          /\ Len(store[k].rows) = Len(Gaps.rows)
          /\ Len(null_rows(store[k])) = 3

\* what the code does: ipca, pib and desemprego write as many rows as were
\* loaded, null or not; a monthly aggregation leaves out the rows without a
\* date and writes a month whose values are all null with a null value
C21_RowsKept ==
    LoadedAndReturned
        => \A i \in 1..Len(ghost.cur.writes) :
              IF Indicator \in MonthlyAggregated
              THEN \A j \in 1..Len(ghost.cur.writes[i].df.rows) :
                      ghost.cur.writes[i].df.rows[j].date # NULL
              ELSE Len(ghost.cur.writes[i].df.rows) = Len(loc.df.rows)

\* cambio on the same raw table: one monthly row for December, whose only
\* value is null
C21_WitnessMonthly ==
    /\ LoadedAndReturned
    /\ Indicator = CAMBIO
    /\ loc.df = Gaps
    /\ Len(ghost.cur.writes) = 1
    /\ \E j \in 1..Len(ghost.cur.writes[1].df.rows) :
          ghost.cur.writes[1].df.rows[j].value = NULL

(***************************************************************************)
(* C22: the difference columns of the labor transformer.                   *)
(***************************************************************************)
\* value[i] - value[i - lag] of the rows of a table, null for the first
\* `lag` rows and where one of the two values is null
lagged_difference(df, i, lag) ==
    IF i <= lag THEN NULL
    ELSE IF df.rows[i].value = NULL \/ df.rows[i - lag].value = NULL THEN NULL
    ELSE << df.rows[i].value[1] - df.rows[i - lag].value[1] >>

\* the written tables of a call for desemprego
LaborWrites ==
    IF Indicator = DESEMPREGO
    THEN { ghost.cur.writes[i].df : i \in 1..Len(ghost.cur.writes) }
    ELSE {}

\* the rows that have a date are in date order, before those that have none
InDateOrder(df) == df = sort_by_date(df)

\* C22: the table written for desemprego has both quarterly_change_pp and
\* annual_change_pp; its rows are in date order, quarterly_change_pp is the
\* value minus the value one row before and annual_change_pp the value
\* minus the value four rows before
C22_BothChanges ==
    \A df \in LaborWrites :
        /\ {"quarterly_change_pp", "annual_change_pp"} \subseteq ColSet(df)
        /\ InDateOrder(df)
        /\ \A i \in 1..Len(df.rows) :
              /\ df.rows[i].quarterly_change_pp = lagged_difference(df, i, 1)
              /\ df.rows[i].annual_change_pp = lagged_difference(df, i, 4)

\* six quarters went through transform_desemprego: the stored table has
\* annual_change_pp (7.60 - 8.80 = -1.20 in the fifth row) and no
\* quarterly_change_pp column
C22_Witness ==
    /\ LoadedAndReturned
    /\ Indicator = DESEMPREGO
    /\ loc.df = Quarterly
    /\ loc.ret = TRUE
    /\ \E k \in SilverObjects :
          /\ "quarterly_change_pp" \notin ColSet(store[k])
          /\ "annual_change_pp" \in ColSet(store[k])
          /\ Len(store[k].rows) = Len(QuarterlyValues)
          /\ store[k].rows[5].annual_change_pp = << 0 - 120 >>

\* what the code does: with a date and a value column the written table is
\* in date order and has annual_change_pp, the difference at lag four, and
\* never quarterly_change_pp; without a date column it has neither
C22_AnnualOnly ==
    \A df \in LaborWrites :
        /\ "quarterly_change_pp" \notin ColSet(df)
        /\ IF "date" \in ColSet(df)
           THEN /\ "annual_change_pp" \in ColSet(df)
                /\ InDateOrder(df)
                /\ \A i \in 1..Len(df.rows) :
                      df.rows[i].annual_change_pp = lagged_difference(df, i, 4)
           ELSE "annual_change_pp" \notin ColSet(df)

\* desemprego without a date column: written with neither column
C22_WitnessNoDate ==
    /\ LoadedAndReturned
    /\ Indicator = DESEMPREGO
    /\ loc.df = NoDateColumn
    /\ \E df \in LaborWrites : "annual_change_pp" \notin ColSet(df)

(***************************************************************************)
(* C23: the monthly rows of the policy-rate transformer.                   *)
(***************************************************************************)
\* the written tables of a call for selic
SelicWrites ==
    IF Indicator = SELIC
    THEN { ghost.cur.writes[i].df : i \in 1..Len(ghost.cur.writes) }
    ELSE {}

\* the year-month of the date of a row
month_of(r) == strftime_ym(r.date)

\* the distinct year-months of the dated rows of the loaded table
months_of_input == { month_of(r) : r \in Range(cleaned(loc.df).rows) } \ {NULL}

\* the non-null values of the rows of the loaded table in a year-month
observations(ym) ==
    LET rows == SelectSeq(cleaned(loc.df).rows, LAMBDA r : month_of(r) = ym)
        cells == SelectSeq([i \in 1..Len(rows) |-> rows[i].value],
                           LAMBDA c : c # NULL)
    IN [i \in 1..Len(cells) |-> cells[i][1]]

\* one row for each year-month of the input, in the order of the months; the
\* value of a row is the mean of its month's observations (null when it has
\* none); change_bps is a hundred times the value minus the value of the row
\* before, null in the first row and next to a null value
MonthlyMeans ==
    \A df \in SelicWrites :
        LET n == Len(df.rows)
        IN /\ { month_of(df.rows[i]) : i \in 1..n } = months_of_input
           /\ n = Cardinality(months_of_input)
           /\ \A i \in 1..(n - 1) : DateLess(df.rows[i].date[1], df.rows[i + 1].date[1])
           /\ \A i \in 1..n :
                 LET obs == observations(month_of(df.rows[i]))
                 IN /\ df.rows[i].value =
                          (IF obs = <<>> THEN NULL
                           ELSE << Reduce(SumSeq(obs), Len(obs)) >>)
                    /\ df.rows[i].change_bps =
                          (IF i = 1 \/ df.rows[i].value = NULL
                                    \/ df.rows[i - 1].value = NULL
                           THEN NULL
                           ELSE LET a == df.rows[i].value[1]
                                    b == df.rows[i - 1].value[1]
                                IN << Reduce(100 * (a.n * b.d - b.n * a.d),
                                             a.d * b.d) >>)

\* two monthly rows, 13.75 and 13.25, the second 50 basis points lower
TwoMonthsFiftyLower(df) ==
    /\ Len(df.rows) = 2
    /\ df.rows[1].value = << Rat(HighRate, 1) >>
    /\ df.rows[2].value = << Rat(LowRate, 1) >>
    /\ df.rows[2].change_bps = << Rat(100 * (LowRate - HighRate), 1) >>

\* the loaded table is the daily rate of the scenario and its sixty days lie
\* in two calendar months
ScenarioInTwoMonths ==
    /\ \E start \in FirstDays : loc.df = DailyRates(start)
    /\ Cardinality(months_of_input) = 2

\* the days at the first rate are one month's days, the days at the second
\* rate the next month's
RateChangesWithMonth ==
    /\ ScenarioInTwoMonths
    /\ month_of(cleaned(loc.df).rows[DaysPerRate])
          # month_of(cleaned(loc.df).rows[DaysPerRate + 1])

C23_WitnessOriginal ==
    /\ LoadedAndReturned
    /\ Indicator = SELIC
    /\ loc.df = DailyRates(Date(2023, 3, 1))
    /\ loc.ret = TRUE
    /\ \E k \in SilverObjects :
          /\ Len(store[k].rows) = 2
          /\ store[k].rows[1].value = << Rat(31 * HighRate - (HighRate - LowRate), 31) >>

C23_WitnessThreeMonths ==
    /\ LoadedAndReturned
    /\ Indicator = SELIC
    /\ loc.df = DailyRates(Date(2023, 1, 1))
    /\ \E df \in SelicWrites : Len(df.rows) = 3

(***************************************************************************)
(* C24: the monthly open, close, high and low of the exchange-rate         *)
(* transformer.                                                            *)
(***************************************************************************)
\* the written tables of a call for cambio
CambioWrites ==
    IF Indicator = CAMBIO
    THEN { ghost.cur.writes[i].df : i \in 1..Len(ghost.cur.writes) }
    ELSE {}

\* the rows of the loaded table in a year-month, in the order they are stored
month_rows(ym) == SelectSeq(cleaned(loc.df).rows, LAMBDA r : month_of(r) = ym)

\* a monthly row against the observations of its month, given in some order:
\* open the first value and close the last, high and low the greatest and
\* the least, value the close; one observation alone gives volatility 0
Summarises(row, obs) ==
    LET vs == { obs[i].value[1] : i \in { j \in 1..Len(obs) : obs[j].value # NULL } }
    IN /\ row.open = obs[1].value
       /\ row.close = obs[Len(obs)].value
       /\ row.high = (IF vs = {} THEN NULL ELSE << Maximum(vs) >>)
       /\ row.low = (IF vs = {} THEN NULL ELSE << Minimum(vs) >>)
       /\ row.value = row.close
       /\ Len(obs) = 1 => /\ row.volatility = << Rat(0, 1) >>
                          /\ row.open = row.close
                          /\ (row.open # NULL => row.high = row.open /\ row.low = row.open)

\* one row for each year-month of the input
OneRowPerMonth(df) ==
    /\ { month_of(df.rows[i]) : i \in 1..Len(df.rows) } = months_of_input
    /\ Len(df.rows) = Cardinality(months_of_input)

\* C24: the table written for cambio has one row per year-month of the
\* input; open and close are the first and the last of the month's values
\* taken in date order, high and low their maximum and minimum, value is
\* close, and a month with one observation has open = high = low = close
\* and volatility 0
C24_DateOrderOHLC ==
    \A df \in CambioWrites :
        /\ OneRowPerMonth(df)
        /\ \A i \in 1..Len(df.rows) :
              Summarises(df.rows[i], SortByDate(month_rows(month_of(df.rows[i]))))

\* January 2024 is stored as 15 January (4.60) before 1 January (4.55): the
\* stored monthly row opens at 4.60 and closes at 4.55
C24_Witness ==
    /\ LoadedAndReturned
    /\ Indicator = CAMBIO
    /\ loc.df = Raw("data", "valor", 4)
    /\ loc.ret = TRUE
    /\ \E k \in SilverObjects :
          /\ Len(store[k].rows) = 3
          /\ store[k].rows[2].date = << MidJanuary >>
          /\ store[k].rows[2].open = << 460 >>
          /\ store[k].rows[2].close = << 455 >>

\* what the code does: open and close are the first and the last of the
\* month's values in the order the rows are stored
C24_StoredOrderOHLC ==
    \A df \in CambioWrites :
        /\ OneRowPerMonth(df)
        /\ \A i \in 1..Len(df.rows) :
              Summarises(df.rows[i], month_rows(month_of(df.rows[i])))

\* one observation in a month: December 2023 of the same table, with
\* open = high = low = close = 4.50 and volatility 0
C24_WitnessSingle ==
    /\ LoadedAndReturned
    /\ Indicator = CAMBIO
    /\ loc.df = Raw("data", "valor", 4)
    /\ \E df \in CambioWrites :
          /\ Len(df.rows) = 3
          /\ df.rows[1].open = << 450 >>
          /\ df.rows[1].high = << 450 >>
          /\ df.rows[1].low = << 450 >>
          /\ df.rows[1].close = << 450 >>
          /\ df.rows[1].volatility = << Rat(0, 1) >>

(***************************************************************************)
(* The normalization every transformer starts with, applied to raw tables  *)
(* of up to MaxCols columns and two rows, and then to its own result.      *)
(* A table is a record per row keyed by column name, so the raw tables are *)
(* those whose renaming leaves no two columns with one name.               *)
(***************************************************************************)
\* columns of a raw table
MaxCols == 3

\* df.rename(columns={'valor': indicator}): the column a collector names
\* after the indicator, here ipca
IndicatorColumn == "ipca"

\* names a raw column may have: the two date names, a value name, the
\* normalized value name and the indicator key
ColumnNames == {"data", "date", "valor", "value", IndicatorColumn}

\* the first and the second cell of a column that holds dates, and of a
\* column that holds numbers: Timestamps or numbers, text that parses next
\* to a Timestamp or number, and text that does not next to a null
DateColumns ==
    << << << MidJanuary >>, << December >> >>,
       << << January >>, DateText >>,
       << Text, NULL >> >>

NumberColumns ==
    << << << 460 >>, << 450 >> >>,
       << << 455 >>, NumeralText >>,
       << Text, NULL >> >>

\* the k-th contents of a column of the given name
ColumnNamed(name, k) ==
    IF name \in exclude_cols THEN DateColumns[k] ELSE NumberColumns[k]

\* the names of the columns, without repetition
ColumnSeqs ==
    { s \in SeqsUpTo(ColumnNames, MaxCols) :
        /\ s # <<>>
        /\ \A i, j \in 1..Len(s) : s[i] = s[j] => i = j }

\* the renaming to date and value gives no name to two columns
Representable(cols) ==
    LET names == { cols[i] : i \in 1..Len(cols) }
        values == SelectSeq(cols, LAMBDA c : c \notin exclude_cols)
    IN /\ ~({"data", "date"} \subseteq names)
       /\ ("value" \in names /\ values # <<>>) => values[1] = "value"

\* the raw table of the given column names and column contents
RawTable(cols, contents) ==
    Table(cols, [r \in 1..2 |-> [c \in { cols[i] : i \in 1..Len(cols) } |->
                    ColumnNamed(c, contents[CHOOSE i \in 1..Len(cols) : cols[i] = c])[r]]])

\* the first four statements of a transformer: ValueError when no column
\* is left for the value
normalize(df) == IF ~HasValueColumn(df) THEN Raised ELSE Returned(cleaned(df))

NormalizeCall(indicator, df) ==
    [fn |-> "normalize", done |-> FALSE, indicator |-> indicator, args |-> df,
     out |-> NoOutput, again |-> NoOutput, step |-> 0]

InitNormalize ==
    /\ \E cols \in ColumnSeqs :
          /\ Representable(cols)
          /\ \E contents \in [1..Len(cols) -> 1..Len(DateColumns)] :
                calc = NormalizeCall(IPCA, RawTable(cols, contents))
    /\ store = EmptyMap
    /\ clock = 0
    /\ pc = "unused"
    /\ loc = Loc0
    /\ results = EmptyMap
    /\ ghost = Ghost0
    /\ eh = EHIdle

\* the normalization of the raw table
Normalize ==
    /\ calc.fn = "normalize"
    /\ calc.step = 0
    /\ calc' = [calc EXCEPT !.step = 1, !.out = normalize(calc.args)]
    /\ UNCHANGED <<store, clock, pc, loc, results, ghost, eh>>

\* the normalization of what the normalization returned
NormalizeAgain ==
    /\ calc.fn = "normalize"
    /\ calc.step = 1
    /\ calc.out.kind = "return"
    /\ calc' = [calc EXCEPT !.step = 2, !.done = TRUE,
                            !.again = normalize(calc.out.table)]
    /\ UNCHANGED <<store, clock, pc, loc, results, ghost, eh>>

NextNormalize ==
    \/ Normalize
    \/ NormalizeAgain

SpecNormalize == InitNormalize /\ [][NextNormalize]_vars

NormalizedTwice == calc.fn = "normalize" /\ calc.step = 2

\* C25: normalizing the result of the normalization gives that result
\* again: the same columns in the same order and the same cells
C25_Idempotent ==
    NormalizedTwice
        => /\ calc.again.kind = "return"
           /\ calc.again.table.cols = calc.out.table.cols
           /\ calc.again.table.rows = calc.out.table.rows

\* a raw table data, valor with text that parses in both columns: the first
\* normalization renamed both columns and converted the text, the second
\* changed nothing
C25_Witness ==
    /\ NormalizedTwice
    /\ calc.args.cols = << "data", "valor" >>
    /\ calc.args.rows[2] = [data |-> DateText, valor |-> NumeralText]
    /\ calc.out.table.cols = << "date", "value" >>
    /\ calc.out.table.rows[2] = [date |-> << MidJanuary >>, value |-> << 450 >>]
    /\ calc.again = calc.out

\* text that does not parse became a null in the first normalization and
\* stayed one in the second
C25_WitnessNull ==
    /\ NormalizedTwice
    /\ calc.args.cols = << "valor", "data" >>
    /\ calc.args.rows[1] = [data |-> Text, valor |-> Text]
    /\ calc.out.table.cols = << "value", "date" >>
    /\ calc.out.table.rows[1] = [date |-> NULL, value |-> NULL]
    /\ calc.again = calc.out

(***************************************************************************)
(* C28: which raw column becomes the value column.                         *)
(***************************************************************************)
\* the normalization returned a table for a raw table without a value column
NormalizedWithoutValue ==
    /\ calc.fn = "normalize"
    /\ calc.step >= 1
    /\ calc.out.kind = "return"
    /\ "value" \notin ColSet(calc.args)

\* the value column of the normalized table holds the converted cells of the
\* raw column `col`, which is no longer there under its own name
ValueIs(col) ==
    /\ col \notin ColSet(calc.out.table)
    /\ \A i \in 1..Len(calc.args.rows) :
          calc.out.table.rows[i].value = to_numeric(calc.args.rows[i][col])

ExactlyOneValue(df) ==
    Cardinality({ i \in 1..Len(df.cols) : df.cols[i] = "value" }) = 1

\* C28: without a column named value, the column named like the indicator
\* becomes value wherever it stands; without such a column the first column
\* other than date and data does; the normalized table has exactly one
\* column named value
C28_IndicatorKeyFirst ==
    NormalizedWithoutValue
        => /\ ExactlyOneValue(calc.out.table)
           /\ IF IndicatorColumn \in ColSet(calc.args)
              THEN ValueIs(IndicatorColumn)
              ELSE ValueIs(value_cols(calc.args)[1])

\* a raw table data, valor, ipca: valor (4.60, 4.50) became value and the
\* ipca column (4.55, '4.50') is still there under its name, unconverted
C28_Witness ==
    /\ NormalizedWithoutValue
    /\ calc.args.cols = << "data", "valor", IndicatorColumn >>
    /\ calc.args.rows[1].valor = << 460 >>
    /\ calc.args.rows[1].ipca = << 455 >>
    /\ calc.out.table.cols = << "date", "value", IndicatorColumn >>
    /\ calc.out.table.rows[1].value = << 460 >>
    /\ calc.out.table.rows[2].ipca = NumeralText

\* what the code does: the first column other than date and data becomes
\* value, whether or not a column is named like the indicator
C28_FirstOtherColumn ==
    NormalizedWithoutValue
        => /\ ExactlyOneValue(calc.out.table)
           /\ ValueIs(value_cols(calc.args)[1])

\* the indicator column stands first among the other columns and became
\* value
C28_WitnessFirst ==
    /\ NormalizedWithoutValue
    /\ calc.args.cols = << IndicatorColumn, "data", "valor" >>
    /\ calc.out.table.cols = << "value", "date", "valor" >>
    /\ calc.args.rows[2].ipca = NumeralText
    /\ calc.out.table.rows[2].value = << 450 >>

(***************************************************************************)
(* The bronze-to-silver and the gold runs of EconomicIndicatorTransformer  *)
(* and GoldTransformer, for the direction of the data.                     *)
(***************************************************************************)
InitFlow ==
    /\ store \in InitialStores
    /\ clock = 2
    /\ \E r \in { x \in Runs : x.kind \in {"b2s", "gold"} } :
          /\ loc = [Loc0 EXCEPT !.kind = r.kind, !.mode = r.mode, !.todo = r.todo,
                                !.loaded = [k \in Range(FiveIndicators) |-> None]]
          /\ pc = IF r.kind = "gold" THEN "gold_load" ELSE "call"
    /\ results = EmptyMap
    /\ ghost = [Ghost0 EXCEPT !.before = store]
    /\ eh = EHIdle
    /\ calc = CalcIdle

NextFlow ==
    \/ StartCall
    \/ RecordResult
    \/ CallReturned
    \/ B2SDiscover
    \/ B2SLoad
    \/ B2STransform
    \/ B2SPersist
    \/ GoldLoadOne
    \/ GoldCheck
    \/ GoldBuild
    \/ GoldSave
    \/ GoldReturn

SpecFlow == InitFlow /\ [][NextFlow]_vars

\* the keys of a layer, or of a directory of a layer
Under(prefix) == { k \in DOMAIN store \cup DOMAIN ghost.before : StartsWith(k, prefix) }

\* the prefix the run is about to list
ListedPrefixes ==
    IF pc = "b2s_discover" /\ IsSupported(Indicator) THEN { B2SPrefix(Indicator) }
    ELSE IF pc = "gold_load" THEN { GoldPrefix(Indicator) }
    ELSE {}

\* the run lists and reads under `source` only, writes under `target` only,
\* and every object under `source` is as it was before the run
FlowsFromTo(source, target) ==
    /\ \A p \in ListedPrefixes : StartsWith(p, source)
    /\ \A i \in 1..Len(ghost.cur.reads) : StartsWith(ghost.cur.reads[i].key, source)
    /\ \A i \in 1..Len(ghost.cur.writes) : StartsWith(ghost.cur.writes[i].key, target)
    /\ \A k \in Under(source) :
          /\ k \in DOMAIN store
          /\ k \in DOMAIN ghost.before
          /\ store[k] = ghost.before[k]
    /\ \A k \in DOMAIN store :
          \/ StartsWith(k, target)
          \/ (k \in DOMAIN ghost.before /\ store[k] = ghost.before[k])

\* C26: a bronze-to-silver run lists and reads under bronze/ and writes
\* under silver/; a gold run lists and reads under silver/ and writes under
\* gold/dashboards/; the layer a run reads is as it was before the run, and
\* nothing outside the target is written
C26_OneDirection ==
    /\ loc.kind = "b2s" => FlowsFromTo(BRONZE \o SLASH, SILVER \o SLASH)
    /\ loc.kind = "gold" =>
          FlowsFromTo(SILVER \o SLASH, GOLD \o SLASH \o DASHBOARDS \o SLASH)
    /\ \A k \in DOMAIN ghost.before : k \in DOMAIN store

\* a gold run read silver objects and wrote a dashboard under gold/dashboards/
C26_Witness ==
    /\ loc.kind = "gold"
    /\ pc = "done"
    /\ Len(ghost.cur.reads) >= 2
    /\ \E i \in 1..Len(ghost.cur.writes) :
          /\ ghost.cur.writes[i].ok
          /\ ghost.cur.writes[i].key \in DOMAIN store
          /\ ghost.cur.writes[i].key \notin DOMAIN ghost.before
    /\ MatchingIn(ghost.before, SILVER \o SLASH) # {}

\* a bronze-to-silver run read a bronze object and wrote a silver object
C26_WitnessSilver ==
    /\ loc.kind = "b2s"
    /\ pc \in {"ret", "done"}
    /\ Len(ghost.cur.reads) = 1
    /\ Len(ghost.cur.writes) = 1
    /\ ghost.cur.writes[1].ok
    /\ ghost.cur.writes[1].key \notin DOMAIN ghost.before
    /\ StartsWith(ghost.cur.writes[1].key, SILVER \o SLASH)

(***************************************************************************)
(* EconomicIndicatorsGoldTransformer.create_labor_market_indicators. The   *)
(* silver tables handed over are those the silver stage writes: a          *)
(* desemprego table never has quarterly_change_pp, so the block that needs *)
(* unemployment_qtr_change (the elasticity columns) is never entered and   *)
(* is not carried.                                                         *)
(***************************************************************************)
\* quarters a series may cover
MaxQuarters == 3

\* gross domestic product of the quarters, in R$ millions
GdpValues == << 2500, 2550, 2600, 2650, 2700, 2750 >>

\* desemprego_df[available_cols].rename(columns=rename_dict)
labor_frame(desemprego_df) ==
    LET available_cols ==
            << "date", "value" >>
                \o (IF "quarterly_change_pp" \in ColSet(desemprego_df)
                    THEN << "quarterly_change_pp" >> ELSE <<>>)
                \o (IF "annual_change_pp" \in ColSet(desemprego_df)
                    THEN << "annual_change_pp" >> ELSE <<>>)
        rename_dict ==
            [c \in SeqToSet(available_cols) \ {"date"} |->
                IF c = "value" THEN "unemployment_rate"
                ELSE IF c = "quarterly_change_pp" THEN "unemployment_qtr_change"
                ELSE "unemployment_annual_change"]
    IN rename(select(desemprego_df, available_cols), rename_dict)

\* df['quarter'] = pd.PeriodIndex(df['date'], freq='Q')
with_quarter(df) ==
    assign(df, "quarter", [i \in 1..Len(df.rows) |-> year_quarter(df.rows[i].date)])

\* pib_df[pib_cols].rename(columns=pib_rename)
gdp_frame(pib_df) ==
    LET pib_cols ==
            << "quarter" >>
                \o (IF "value" \in ColSet(pib_df) THEN << "value" >> ELSE <<>>)
                \o (IF "quarterly_change_pct" \in ColSet(pib_df)
                    THEN << "quarterly_change_pct" >> ELSE <<>>)
        pib_rename ==
            [c \in SeqToSet(pib_cols) \ {"quarter"} |->
                IF c = "value" THEN "gdp" ELSE "gdp_growth"]
    IN rename(select(with_quarter(pib_df), pib_cols), pib_rename)

\* the rows a left merge gives for the left rows from the i-th on: each left
\* row paired with every right row of its key, or padded with nulls
RECURSIVE left_rows(_, _, _, _)
left_rows(left, right, on, i) ==
    IF i > Len(left.rows) THEN <<>>
    ELSE LET l == left.rows[i]
             R == SelectSeq(right.rows, LAMBDA r : r[on] = l[on])
         IN (IF R = <<>> THEN << l @@ NullRow(ColSet(right)) >>
             ELSE [n \in 1..Len(R) |-> l @@ R[n]])
                \o left_rows(left, right, on, i + 1)

\* pd.merge(left, right, on=on, how='left'), the two sides sharing no other
\* column
merge_left(left, right, on) ==
    Table(left.cols \o SelectSeq(right.cols, LAMBDA c : c # on),
          left_rows(left, right, on, 1))

create_labor_market_indicators(indicators, now) ==
    IF DESEMPREGO \notin DOMAIN indicators \/ indicators[DESEMPREGO].isNone
    THEN Returned(EmptyFrame)
    ELSE LET desemprego_df == indicators[DESEMPREGO]
         IN IF ~({"date", "value"} \subseteq ColSet(desemprego_df)) THEN Raised
            ELSE LET labor_df == labor_frame(desemprego_df)
                     joins == /\ PIB \in DOMAIN indicators
                              /\ ~indicators[PIB].isNone
                              /\ {"quarterly_change_pct", "value"}
                                    \cap ColSet(indicators[PIB]) # {}
                 IN IF ~joins
                    THEN Returned(assign_scalar(labor_df, "updated_at",
                                                strftime_seconds(now)))
                    ELSE IF "date" \notin ColSet(indicators[PIB]) THEN Raised
                    ELSE Returned(
                           assign_scalar(
                               drop(merge_left(with_quarter(labor_df),
                                               gdp_frame(indicators[PIB]),
                                               "quarter"),
                                    "quarter"),
                               "updated_at", strftime_seconds(now)))

\* the silver table of a series over the given quarters, in the given order,
\* with or without its change column
QuarterlyTable(quarters, values, change_col, with_change) ==
    LET base == Table(DateValue,
                      [i \in 1..Len(quarters) |->
                          [date |-> << Quarter(quarters[i]) >>,
                           value |-> << values[quarters[i]] >>]])
    IN IF with_change
       THEN assign(base, change_col, [i \in 1..Len(quarters) |-> NULL])
       ELSE base

\* the quarters of a series: up to MaxQuarters of them, in any order
QuarterSeqs ==
    { s \in SeqsUpTo(1..MaxQuarters, MaxQuarters) :
        s # <<>> /\ \A i, j \in 1..Len(s) : s[i] = s[j] => i = j }

LaborCall(indicators) ==
    [fn |-> "labor", done |-> FALSE, args |-> indicators, out |-> NoOutput]

InitLabor ==
    /\ \/ \E l \in QuarterSeqs, g \in QuarterSeqs, lc \in BOOLEAN, gc \in BOOLEAN :
             calc = LaborCall(
                      DESEMPREGO :> QuarterlyTable(l, QuarterlyValues,
                                                   "annual_change_pp", lc)
                      @@ PIB :> QuarterlyTable(g, GdpValues,
                                               "quarterly_change_pct", gc))
       \/ \E d \in Choices({ QuarterlyTable(<< 1, 2 >>, QuarterlyValues,
                                             "annual_change_pp", TRUE),
                              ValueOnly }),
             p \in Choices({ ValueOnly }) :
             calc = LaborCall(Dict(DESEMPREGO :> d @@ PIB :> p))
    /\ store = EmptyMap
    /\ clock = 0
    /\ pc = "unused"
    /\ loc = Loc0
    /\ results = EmptyMap
    /\ ghost = Ghost0
    /\ eh = EHIdle

CreateLabor ==
    /\ calc.fn = "labor"
    /\ ~calc.done
    /\ calc' = [calc EXCEPT !.done = TRUE,
                            !.out = create_labor_market_indicators(calc.args, clock)]
    /\ UNCHANGED <<store, clock, pc, loc, results, ghost, eh>>

NextLabor == CreateLabor

SpecLabor == InitLabor /\ [][NextLabor]_vars

\* the builder returned a panel made of a labor and a GDP series
LaborJoined ==
    /\ calc.fn = "labor"
    /\ calc.done
    /\ calc.out.kind = "return"
    /\ Holds(calc.args, DESEMPREGO)
    /\ Holds(calc.args, PIB)
    /\ "gdp" \in ColSet(calc.out.table)

\* the quarters of the rows of a silver table
quarters_of(df) == { year_quarter(df.rows[i].date) : i \in 1..Len(df.rows) }

\* C27: the panel is the outer join of the two series on the quarter: each
\* labor row is a panel row, with the GDP of its quarter or a null, and each
\* GDP row of a quarter without a labor row is a panel row too, with a null
\* unemployment rate
C27_OuterJoin ==
    LaborJoined =>
        LET labor == calc.args[DESEMPREGO]
            pib == calc.args[PIB]
            panel == calc.out.table
        IN /\ \A i \in 1..Len(labor.rows) :
                 \E j \in 1..Len(panel.rows) :
                    panel.rows[j].unemployment_rate = labor.rows[i].value
           /\ \A i \in 1..Len(pib.rows) :
                 \E j \in 1..Len(panel.rows) :
                    /\ panel.rows[j].gdp = pib.rows[i].value
                    /\ year_quarter(pib.rows[i].date) \notin quarters_of(labor)
                          => panel.rows[j].unemployment_rate = NULL

\* labor covers the first quarter, GDP the first and the second: the panel
\* has the one labor row with its GDP and no row for the second quarter
C27_Witness ==
    /\ LaborJoined
    /\ Len(calc.args[DESEMPREGO].rows) = 1
    /\ calc.args[DESEMPREGO].rows[1].date = << Quarter(1) >>
    /\ Len(calc.args[PIB].rows) = 2
    /\ calc.args[PIB].rows[2].date = << Quarter(2) >>
    /\ Len(calc.out.table.rows) = 1
    /\ calc.out.table.rows[1].unemployment_rate = << QuarterlyValues[1] >>
    /\ calc.out.table.rows[1].gdp = << GdpValues[1] >>

\* what the code does, a left join: one panel row per labor row, in the
\* order of the labor rows, with the GDP of the row's quarter, or a null
\* when GDP has no such quarter; a quarter of GDP alone has no row
C27_LeftJoin ==
    LaborJoined =>
        LET labor == calc.args[DESEMPREGO]
            pib == calc.args[PIB]
            panel == calc.out.table
        IN /\ Len(panel.rows) = Len(labor.rows)
           /\ \A i \in 1..Len(labor.rows) :
                 /\ panel.rows[i].date = labor.rows[i].date
                 /\ panel.rows[i].unemployment_rate = labor.rows[i].value
                 /\ \/ /\ panel.rows[i].gdp = NULL
                       /\ year_quarter(labor.rows[i].date) \notin quarters_of(pib)
                    \/ \E k \in 1..Len(pib.rows) :
                          /\ year_quarter(pib.rows[k].date)
                                = year_quarter(labor.rows[i].date)
                          /\ panel.rows[i].gdp = pib.rows[k].value

\* labor covers a quarter GDP does not: its row is in the panel with a null
\* GDP
C27_WitnessLaborOnly ==
    /\ LaborJoined
    /\ Len(calc.args[DESEMPREGO].rows) = 2
    /\ Len(calc.args[PIB].rows) = 1
    /\ calc.args[PIB].rows[1].date = calc.args[DESEMPREGO].rows[1].date
    /\ Len(calc.out.table.rows) = 2
    /\ calc.out.table.rows[1].gdp # NULL
    /\ calc.out.table.rows[2].gdp = NULL

(***************************************************************************)
(* BaseTransformer.process_all_indicators called without a list: the       *)
(* indicators are taken from the keys of the source layer.                 *)
(***************************************************************************)
\* str.split(sep): the pieces between the occurrences of a character
split(s, sep) ==
    LET at == SelectSeq([i \in 1..Len(s) |-> i], LAMBDA i : s[i] = sep)
        cuts == << 0 >> \o at \o << Len(s) + 1 >>
    IN [k \in 1..(Len(cuts) - 1) |-> SubSeq(s, cuts[k] + 1, cuts[k + 1] - 1)]

\* '_' in part
has_underscore(part) == \E i \in 1..Len(part) : part[i] = "_"

\* indicators = set(); for file_path in available_files: for part in
\* file_path.split('/'): if '_' in part: indicators.add(part.split('_')[0])
discovered(available_files) ==
    { split(part, "_")[1] :
        part \in { p \in UNION { Range(split(available_files[i], "/")) :
                                  i \in 1..Len(available_files) } :
                   has_underscore(p) } }

\* an indicator of the IBGE collector whose name has two words
PIB_IBGE == PIB \o UNDERSCORE \o << "i", "b", "g", "e" >>

\* names under which raw snapshots are stored
StoredNames == { IPCA, PIB_IBGE }

DiscoverStores ==
    { StoreOf({ Silver(IPCA, 0) }, {}),
      StoreOf({ Bronze(IPCA, 0), Bronze(IPCA, 1) }, {}),
      StoreOf({ Bronze(PIB_IBGE, 0), Bronze(IPCA, 0) }, { Bronze(IPCA, 0) }) }

InitDiscover ==
    /\ store \in DiscoverStores
    /\ clock = 2
    /\ loc = [Loc0 EXCEPT !.kind = "base", !.mode = "all",
                          !.loaded = [k \in Range(FiveIndicators) |-> None]]
    /\ pc = "base_discover"
    /\ results = EmptyMap
    /\ ghost = [Ghost0 EXCEPT !.before = store]
    /\ eh = EHIdle
    /\ calc = CalcIdle

\* if indicators is None: list the source layer, return {} when nothing is
\* listed, otherwise take the names from the keys, in the order of a set
BaseDiscoverIndicators ==
    /\ pc = "base_discover"
    /\ \E o \in ClientOutcomes,
          listing \in Listings(BRONZE \o SLASH \o ECONOMIC_INDICATORS) :
          LET available_files == IF o = "ok" THEN listing ELSE <<>>
          IN IF o = "raise" THEN OnRaise("discover")
             ELSE IF available_files = <<>>
             THEN pc' = "done" /\ loc' = loc
             ELSE \E indicators \in Perms(discovered(available_files)) :
                     /\ pc' = "call"
                     /\ loc' = [loc EXCEPT !.todo = indicators]
    /\ UNCHANGED <<store, clock, results, ghost, eh, calc>>

NextDiscover ==
    \/ BaseDiscoverIndicators
    \/ StartCall
    \/ BaseLoad
    \/ BaseTransform
    \/ BaseValidate
    \/ BaseSave
    \/ RecordResult

SpecDiscover == InitDiscover /\ [][NextDiscover]_vars

\* the names that have an object under bronze/economic_indicators
StoredIndicators ==
    { n \in StoredNames :
        \E t \in 0..1 : Bronze(n, t) \in DOMAIN ghost.before }

\* process_all_indicators has returned its map
DiscoveredAndDone == loc.kind = "base" /\ pc = "done"

ECONOMIC == << "e", "c", "o", "n", "o", "m", "i", "c" >>

\* C29: the keys of the returned map are exactly the indicators that have
\* an object under the source layer's economic_indicators
C29_ExactlyStored ==
    DiscoveredAndDone
        => \/ DOMAIN results = StoredIndicators
           \/ results = EmptyMap /\ ghost.calls = 0

\* two snapshots of ipca are stored: the map has the keys ipca and
\* economic, the latter with False
C29_Witness ==
    /\ DiscoveredAndDone
    /\ StoredIndicators = { IPCA }
    /\ DOMAIN results = { IPCA, ECONOMIC }
    /\ results[ECONOMIC] = FALSE
    /\ ghost.calls = 2

\* what the code does: the keys of the map are the text before the first
\* underscore of every path part that has one, so economic is always among
\* them and a stored name is a key only up to its first underscore
C29_FirstWords ==
    DiscoveredAndDone
        => \/ results = EmptyMap /\ ghost.calls = 0
           \/ /\ DOMAIN results
                    = {ECONOMIC} \cup { split(n, "_")[1] : n \in StoredIndicators }
              /\ results[ECONOMIC] = FALSE
              /\ ghost.calls = Cardinality(DOMAIN results)

\* pib_ibge is stored: the map has the key pib and no key pib_ibge
C29_WitnessTwoWords ==
    /\ DiscoveredAndDone
    /\ PIB_IBGE \in StoredIndicators
    /\ PIB \in DOMAIN results
    /\ PIB_IBGE \notin DOMAIN results

(***************************************************************************)
(* C30: which observation of an indicator enters the health score.         *)
(***************************************************************************)
\* last / mean of the non-null values of a table, as the score takes it
ratio_to_mean(df, last) ==
    LET vals == ValuesOf(df)
    IN IF vals # <<>> /\ SumSeq(vals) > 0
       THEN IF last = NULL THEN NULL
            ELSE << Reduce(last[1] * Len(vals), SumSeq(vals)) >>
       ELSE << Rat(1, 1) >>

\* the weighted sum of the ratios of the given last values
RECURSIVE index_of(_, _, _)
index_of(last, weights, inds) ==
    IF inds = <<>> THEN << Rat(0, 1) >>
    ELSE LET rest == index_of(last, weights, Tail(inds))
             n == ratio_to_mean(calc.args[Head(inds)], last[Head(inds)])
         IN IF rest = NULL \/ n = NULL THEN NULL
            ELSE << RatAdd(rest[1], RatMul(weights[Head(inds)], n[1])) >>

\* the score, as reported, that the given last values of the health
\* indicators give
score_of(last) ==
    LET inds == has(available(calc.args))
    IN round1(econ_score(index_of(last, normalized_weights(inds), inds)))

\* the dashboard has a summary row and a row for each health indicator
HealthScored ==
    /\ MacroReturned
    /\ Len(HealthRows) = 1
    /\ \A ind \in SeqToSet(has(available(calc.args))) :
          Len(RowsOf(calc.out.table, ind)) = 1

\* the last_value the dashboard reports for each health indicator
reported_last ==
    [ind \in SeqToSet(has(available(calc.args))) |->
        RowsOf(calc.out.table, ind)[1].last_value]

\* the value of the last row of each health indicator's table as loaded
stored_last ==
    [ind \in SeqToSet(has(available(calc.args))) |->
        calc.args[ind].rows[Len(calc.args[ind].rows)].value]

\* the row of a table with the greatest date is the one reported
ReportsGreatestDate ==
    \A ind \in SeqToSet(has(available(calc.args))) :
        LET r == RowsOf(calc.out.table, ind)[1]
        IN \E i \in 1..Len(calc.args[ind].rows) :
              /\ calc.args[ind].rows[i].date = r.last_date
              /\ calc.args[ind].rows[i].value = r.last_value
              /\ \A j \in 1..Len(calc.args[ind].rows) :
                    ~DateLess(r.last_date[1], calc.args[ind].rows[j].date[1])

\* C30: the dashboard row of each of ipca, selic and desemprego reports the
\* observation with the greatest date, and the economic_health score is the
\* score of those reported observations, whatever the order of the rows
C30_ScoreOfReported ==
    HealthScored
        => /\ ReportsGreatestDate
           /\ HealthRows[1].last_value = score_of(reported_last)

\* ipca is stored latest first (0.15 of January before 0.53 of December):
\* the dashboard reports 0.15 for ipca and the score is that of 0.53
C30_Witness ==
    /\ HealthScored
    /\ IPCA \in DOMAIN reported_last
    /\ calc.args[IPCA] = Series(<< January, December >>, << << 15 >>, << 53 >> >>)
    /\ reported_last[IPCA] = << 15 >>
    /\ stored_last[IPCA] = << 53 >>
    /\ HealthRows[1].last_value # score_of(reported_last)
    /\ HealthRows[1].last_value = score_of(stored_last)

\* what the code does: the rows report the observation with the greatest
\* date, the score takes the last row of each table as it is stored
C30_ScoreOfStoredLast ==
    HealthScored
        => /\ ReportsGreatestDate
           /\ HealthRows[1].last_value = score_of(stored_last)

\* the same ipca rows stored in date order: reported and scored observation
\* are the same
C30_WitnessSorted ==
    /\ HealthScored
    /\ IPCA \in DOMAIN reported_last
    /\ calc.args[IPCA] = Series(<< December, January >>, << << 53 >>, << 15 >> >>)
    /\ reported_last[IPCA] = stored_last[IPCA]
    /\ HealthRows[1].last_value = score_of(reported_last)

====
